---- MODULE Spec2Model ----
(***************************************************************************)
(* Translation orchestration layer: the two-tier translation cache         *)
(* (services/cache.ts), the per-provider circuit breakers                  *)
(* (services/circuitBreaker.ts, built on opossum's CircuitBreaker) and the *)
(* normalization pipeline (services/translationService.ts).                *)
(***************************************************************************)
EXTENDS Integers, Sequences, FiniteSets, TLC

VARIABLES
    \* ---- services/cache.ts, services/redis.ts
    memoryCache,      \* Map<string,{value,expiry}> in insertion order
    memoryCacheSize,  \* the module counter kept beside the map
    redisReady,       \* redisClient !== null && redisClient.status === 'ready'
    redisStore,       \* the remote store: full key -> {value, expireAt} or NoEntry
    now,              \* Date.now(), in milliseconds
    cacheOut,         \* the last cache operation and what it returned
    \* ---- services/circuitBreaker.ts
    circuitBreakers,  \* Map<string, CircuitBreaker>: name -> breaker
    cbOut,            \* the last breaker operation and what its caller got
    \* ---- services/translationService.ts
    pc,               \* where the normalizeText call in progress stands
    req,              \* its request and tenant
    sourceLang,       \* its resolved source language
    detection,        \* what detectLanguage returned, or NoDetection
    calls,            \* what the call in progress has invoked so far
    usageLog,         \* the records it handed to usageLogRepository.create
    response,         \* what the last finished call returned or threw
    history,          \* the translation request a provider answered last
    \* ---- normalizeTextBatch, normalizeTextBatchParallel
    batch,            \* the batch call in progress: its arguments and locals
    itemOut,          \* per item: where its normalizeText call stands
    started,          \* the items in the order their pipelines were called
    bresp,            \* what the last finished batch call returned or threw
    \* ---- app.ts, middleware/rateLimit.ts, middleware/auth.ts, routes/normalize.ts
    http,             \* the HTTP request in progress and how far it has come
    rateHits,         \* the rate limiter's store: key -> hits in the window
    \* ---- utils/helpers.ts
    gloss,            \* the last glossary masking and what it gave
    rt,               \* the retry() call in progress: its arguments and locals
    \* ---- middleware/timeout.ts
    tm                \* the request in the timeout middleware: timers, response

cacheVars == <<memoryCache, memoryCacheSize, redisReady, redisStore, now, cacheOut>>
breakerVars == <<circuitBreakers, cbOut>>
pipeVars == <<pc, req, sourceLang, detection, calls, usageLog, response, history>>
batchVars == <<batch, itemOut, started, bresp>>
appVars == <<http, rateHits, gloss, rt, tm>>
vars == <<memoryCache, memoryCacheSize, redisReady, redisStore, now, cacheOut,
          circuitBreakers, cbOut,
          pc, req, sourceLang, detection, calls, usageLog, response, history,
          batch, itemOut, started, bresp, http, rateHits, gloss, rt, tm>>

(***************************************************************************)
(* Bounds of the model.                                                    *)
(***************************************************************************)
\* config.cache.maxSize, scaled down
CacheMaxSize == 1
\* memoryCacheSize drifts upwards in the code; local writes stop here
MaxSizeCounter == 3
\* Date.now() advances by whole seconds, this many times
MaxTicks == 2

(***************************************************************************)
(* Cache layer.                                                            *)
(***************************************************************************)
NoValue == "<null>"
NoEntry == [value |-> NoValue, expireAt |-> -1]
NoCacheOp ==
    [op |-> "none", key |-> "", value |-> NoValue, ttl |-> 0, raised |-> FALSE, count |-> 0]

\* config.cache.enabled (CACHE_ENABLED, true unless set otherwise)
CacheEnabled == TRUE

\* Date.now() + ttl * 1000
MsPerSecond == 1000

Providers == {"deepl", "google"}

\* the (text, sourceLang, targetLang, provider) tuples the cache is exercised on
CacheInputs ==
    { <<"hola", "es", "en", "deepl">>,
      <<"hola", "es", "en", "google">> }

\* translated texts handed to setCachedTranslation; a provider may return ""
CacheValues == {"", "hello"}

\* ttlSeconds handed to setCachedTranslation (options.ttlSeconds ?? config)
CacheTtls == {0, 1}

KeyPrefix == "tl:"

\* sha256(...).digest('hex').substring(0, 32): a fingerprint of its input,
\* taken to be collision free
Sha256Hex32(s) == "#" \o s

generateCacheKey(text, srcLang, tgtLang, provider, namespace) ==
    namespace \o ":" \o
    Sha256Hex32(text \o ":" \o srcLang \o ":" \o tgtLang \o ":" \o provider)

\* the texts setCachedLanguageDetection is called with, the JSON of the
\* result it stores, and its fixed ttl of 24 hours
LangTexts == {"hola"}
LangValue == "{lang:es,confidence:90}"
LangDetectTtl == 86400

\* `langdetect:${hash}`
LangKey(text) == "langdetect:" \o Sha256Hex32(text)
LangKeys == { LangKey(t) : t \in LangTexts }

CacheKeys ==
    { generateCacheKey(i[1], i[2], i[3], i[4], "translation") : i \in CacheInputs }

RedisKeys == { KeyPrefix \o k : k \in CacheKeys \cup LangKeys }

\* index of key k in the map, 0 when absent
MapIndex(m, k) ==
    IF \E i \in 1..Len(m) : m[i].key = k
    THEN CHOOSE i \in 1..Len(m) : m[i].key = k
    ELSE 0

MapHas(m, k) == MapIndex(m, k) # 0

\* Map.prototype.set: an existing key keeps its place, a new one goes last
MapSet(m, k, v, e) ==
    IF MapHas(m, k)
    THEN [m EXCEPT ![MapIndex(m, k)] = [key |-> k, value |-> v, expiry |-> e]]
    ELSE Append(m, [key |-> k, value |-> v, expiry |-> e])

\* ioredis get under keyPrefix: null for a missing or an expired key
RedisGet(store, k, t) ==
    LET e == store[KeyPrefix \o k]
    IN IF e # NoEntry /\ e.expireAt > t THEN e.value ELSE NoValue

\* SETEX rejects a ttl that is not positive ("ERR invalid expire time")
RedisSetexRaises(ttl) == ttl <= 0

RedisSetex(store, k, ttl, v, t) ==
    [store EXCEPT ![KeyPrefix \o k] = [value |-> v, expireAt |-> t + ttl * MsPerSecond]]

\* JavaScript truthiness of `cached` (string | null) in `if (cached)`
Truthy(v) == v # NoValue /\ v # ""

MemLiveInclusive(entry, t) == entry.expiry >= t

\* memEntry && memEntry.expiry > Date.now()
MemLive(entry, t) == entry.expiry > t

\* cleanupMemoryCache: drop every entry with expiry < now
Expired(entry, t) == entry.expiry < t

cleanupMemoryCache(m, t) == SelectSeq(m, LAMBDA e : ~Expired(e, t))

\* the batch evicted when the map is still at capacity after the cleanup
\* (keys().slice(0, 100)), scaled down with CacheMaxSize
EvictBatch == 1

Min(a, b) == IF a < b THEN a ELSE b

\* the local branch of setCachedTranslation: <<map, size>> after it
MemorySet(m, size, k, v, ttl, t) ==
    LET atCap == size >= CacheMaxSize
        m1 == IF atCap THEN cleanupMemoryCache(m, t) ELSE m
        s1 == IF atCap THEN size - (Len(m) - Len(m1)) ELSE size
        still == atCap /\ s1 >= CacheMaxSize
        nDel == Min(EvictBatch, Len(m1))
        m2 == IF still THEN SubSeq(m1, nDel + 1, Len(m1)) ELSE m1
        s2 == IF still THEN s1 - nDel ELSE s1
    IN <<MapSet(m2, k, v, t + ttl * MsPerSecond), s2 + 1>>

GetResultRemoteOnly(k, raises) ==
    LET cached == IF redisReady /\ ~raises THEN RedisGet(redisStore, k, now) ELSE NoValue
        i == MapIndex(memoryCache, k)
    IN IF ~CacheEnabled THEN NoValue
       ELSE IF redisReady THEN (IF Truthy(cached) THEN cached ELSE NoValue)
       ELSE IF i # 0 /\ MemLive(memoryCache[i], now) THEN memoryCache[i].value
       ELSE NoValue

\* getCachedTranslation with the cache enabled: the value returned, or NoValue
GetResult(k, raises) ==
    LET cached == IF redisReady /\ ~raises THEN RedisGet(redisStore, k, now) ELSE NoValue
        i == MapIndex(memoryCache, k)
    IN IF ~CacheEnabled THEN NoValue
       ELSE IF Truthy(cached) THEN cached
       ELSE IF i # 0 /\ MemLive(memoryCache[i], now) THEN memoryCache[i].value
       ELSE NoValue

getCachedTranslation(text, srcLang, tgtLang, provider, raises) ==
    LET k == generateCacheKey(text, srcLang, tgtLang, provider, "translation")
    IN /\ cacheOut' = [op |-> "get", key |-> k, value |-> GetResult(k, raises),
                       ttl |-> 0, raised |-> raises, count |-> 0]
       /\ UNCHANGED <<memoryCache, memoryCacheSize, redisReady, redisStore, now>>

setCachedTranslationBothTiers(text, srcLang, tgtLang, provider, v, ttl, raises) ==
    LET k == generateCacheKey(text, srcLang, tgtLang, provider, "translation")
        toRedis == redisReady /\ ~raises /\ ~RedisSetexRaises(ttl)
        mem == MemorySet(memoryCache, memoryCacheSize, k, v, ttl, now)
    IN /\ memoryCacheSize < MaxSizeCounter
       /\ redisStore' = IF toRedis THEN RedisSetex(redisStore, k, ttl, v, now) ELSE redisStore
       /\ memoryCache' = mem[1]
       /\ memoryCacheSize' = mem[2]
       /\ cacheOut' = [op |-> "set", key |-> k, value |-> v, ttl |-> ttl,
                       raised |-> redisReady /\ ~toRedis, count |-> 0]
       /\ UNCHANGED <<redisReady, now>>

setCachedTranslation(text, srcLang, tgtLang, provider, v, ttl, raises) ==
    LET k == generateCacheKey(text, srcLang, tgtLang, provider, "translation")
        toRedis == redisReady /\ ~raises /\ ~RedisSetexRaises(ttl)
        mem == MemorySet(memoryCache, memoryCacheSize, k, v, ttl, now)
    IN /\ toRedis \/ memoryCacheSize < MaxSizeCounter
       /\ IF ~CacheEnabled
          THEN UNCHANGED <<memoryCache, memoryCacheSize, redisStore>>
          ELSE IF toRedis
          THEN /\ redisStore' = RedisSetex(redisStore, k, ttl, v, now)
               /\ UNCHANGED <<memoryCache, memoryCacheSize>>
          ELSE /\ memoryCache' = mem[1]
               /\ memoryCacheSize' = mem[2]
               /\ UNCHANGED redisStore
       /\ cacheOut' = [op |-> "set", key |-> k, value |-> v, ttl |-> ttl,
                       raised |-> redisReady /\ ~toRedis, count |-> 0]
       /\ UNCHANGED <<redisReady, now>>

\* setCachedLanguageDetection: the remote store first, else the local map,
\* written without the capacity check and without the counter
setCachedLanguageDetection(text, raises) ==
    LET k == LangKey(text)
        toRedis == redisReady /\ ~raises
    IN /\ IF ~CacheEnabled
          THEN UNCHANGED <<memoryCache, redisStore>>
          ELSE IF toRedis
          THEN /\ redisStore' = RedisSetex(redisStore, k, LangDetectTtl, LangValue, now)
               /\ UNCHANGED memoryCache
          ELSE /\ memoryCache' = MapSet(memoryCache, k, LangValue,
                                        now + LangDetectTtl * MsPerSecond)
               /\ UNCHANGED redisStore
       /\ cacheOut' = [op |-> "langset", key |-> k, value |-> LangValue,
                       ttl |-> LangDetectTtl, raised |-> redisReady /\ ~toRedis,
                       count |-> 0]
       /\ UNCHANGED <<memoryCacheSize, redisReady, now>>

\* the remote store's connection comes and goes (redisClient.status)
RedisStatusChange ==
    /\ redisReady' = ~redisReady
    /\ cacheOut' = NoCacheOp
    /\ UNCHANGED <<memoryCache, memoryCacheSize, redisStore, now>>

\* time passes
Tick ==
    /\ now < MaxTicks * MsPerSecond
    /\ now' = now + MsPerSecond
    /\ cacheOut' = NoCacheOp
    /\ UNCHANGED <<memoryCache, memoryCacheSize, redisReady, redisStore>>

CacheGet ==
    \E i \in CacheInputs, raises \in BOOLEAN :
        /\ raises => redisReady
        /\ getCachedTranslation(i[1], i[2], i[3], i[4], raises)

CacheSet ==
    \E i \in CacheInputs, v \in CacheValues, ttl \in CacheTtls, raises \in BOOLEAN :
        /\ raises => redisReady
        /\ setCachedTranslation(i[1], i[2], i[3], i[4], v, ttl, raises)

\* the patterns invalidateCache is called with: every key, a namespace
InvalidatePatterns == {"", "translation:", "langdetect:"}

\* what may follow a pattern in a key of the model
KeyTails ==
    {""} \cup CacheKeys \cup LangKeys \cup { Sha256Hex32(t) : t \in LangTexts }
         \cup { Sha256Hex32(i[1] \o ":" \o i[2] \o ":" \o i[3] \o ":" \o i[4]) : i \in CacheInputs }

\* key.startsWith(pattern)
KeyStartsWith(key, pattern) == \E t \in KeyTails : pattern \o t = key

\* redis.keys(glob): KEYS takes a pattern, not a key, so ioredis sends it as
\* given, without keyPrefix; the reply holds the stored (prefixed) names of
\* the live keys the glob `prefix*` matches
RedisKeysMatching(store, prefix, t) ==
    { k \in DOMAIN store :
        /\ store[k] # NoEntry /\ store[k].expireAt > t
        /\ KeyStartsWith(k, prefix) }

\* redis.del(...keys) under keyPrefix: every argument is a key and is sent
\* with keyPrefix put in front of it
RedisDel(store, keys) ==
    [k \in DOMAIN store |->
        IF \E q \in keys : KeyPrefix \o q = k THEN NoEntry ELSE store[k]]

invalidateCache(pattern, raises) ==
    LET keys == IF redisReady /\ ~raises
                THEN RedisKeysMatching(redisStore, KeyPrefix \o pattern, now)
                ELSE {}
        kept == SelectSeq(memoryCache, LAMBDA e : ~KeyStartsWith(e.key, pattern))
    IN /\ redisStore' = RedisDel(redisStore, keys)
       /\ memoryCache' = kept
       /\ cacheOut' = [op |-> "invalidate", key |-> pattern, value |-> NoValue, ttl |-> 0,
                       raised |-> raises,
                       count |-> Cardinality(keys) + (Len(memoryCache) - Len(kept))]
       /\ UNCHANGED <<memoryCacheSize, redisReady, now>>

LangSet ==
    \E t \in LangTexts, raises \in BOOLEAN :
        /\ raises => redisReady
        /\ setCachedLanguageDetection(t, raises)

CacheInvalidate ==
    \E p \in InvalidatePatterns, raises \in BOOLEAN :
        /\ raises => redisReady
        /\ invalidateCache(p, raises)

(***************************************************************************)
(* Circuit breakers: createCircuitBreaker builds an opossum CircuitBreaker *)
(* around a provider's translate function and registers it by name.        *)
(***************************************************************************)
\* config.circuitBreaker.enabled (CIRCUIT_BREAKER_ENABLED, true by default)
CircuitBreakerEnabled == TRUE
\* config.circuitBreaker.errorThresholdPercentage
ErrorThresholdPercentage == 50
\* config.circuitBreaker.volumeThreshold, scaled down
VolumeThreshold == 2
\* buckets of the breaker's rolling statistics window, scaled down
RollingBuckets == 2
\* fires the rolling windows of all breakers hold at most
MaxFires == 3
\* provider calls in flight at most, over all breakers
MaxInflight == 2

BreakerNames == Providers

\* one bucket of the rolling window; of the events opossum counts, the two
\* that decide the breaker's transitions
EmptyBucket == [fires |-> 0, failures |-> 0]

\* new CircuitBreaker(fn, {timeout, errorThresholdPercentage, resetTimeout,
\* volumeThreshold, name}): closed, nothing counted, nothing in flight
NewBreaker ==
    [state |-> "closed", pendingClose |-> FALSE,
     window |-> [i \in 1..RollingBuckets |-> EmptyBucket], inflight |-> 0]

RECURSIVE SumField(_, _, _)
SumField(w, f, i) == IF i = 0 THEN 0 ELSE w[i][f] + SumField(w, f, i - 1)

\* breaker.stats: the counters summed over the rolling window
Stats(b) ==
    [f \in {"fires", "failures"} |->
        SumField(b.window, f, Len(b.window))]

\* an event counted in the newest bucket of the window
Count(b, f) == [b EXCEPT !.window[1][f] = @ + 1]

\* the state getCircuitBreakerStats reports
StatsState(b) ==
    IF b.state = "open" THEN "open"
    ELSE IF b.state = "halfOpen" THEN "half-open" ELSE "closed"

\* the error the registered fallback throws, whatever error it was given
Unavailable(name) ==
    "Translation provider " \o name \o " is currently unavailable. Please try again later."

\* breaker.fallback(() => { throw new TranslationError(...) }): what the caller
\* of fire() gets once the fallback has run on error err
Fallback(name, err) == Unavailable(name)

\* breaker.open()
Open(b) == [b EXCEPT !.state = "open", !.pendingClose = FALSE]

CloseOnlyHalfOpen(b) ==
    IF b.state = "halfOpen" THEN [b EXCEPT !.state = "closed", !.pendingClose = FALSE] ELSE b

\* breaker.close()
Close(b) == [b EXCEPT !.state = "closed", !.pendingClose = FALSE]

TripsOnlyHalfOpen(b) == b.state = "halfOpen"

TripsThresholdOnly(b) ==
    /\ Stats(b).fires >= VolumeThreshold
    /\ Stats(b).failures * 100 > ErrorThresholdPercentage * Stats(b).fires

\* whether a failure just counted opens the breaker: the volume threshold is
\* reached and the error rate exceeds the threshold, or the breaker is half-open
Trips(b) ==
    LET st == Stats(b)
    IN IF st.fires < VolumeThreshold /\ b.state # "halfOpen" THEN FALSE
       ELSE \/ st.failures * 100 > ErrorThresholdPercentage * st.fires
            \/ b.state = "halfOpen"

\* a failure of the wrapped call (an error or a timeout)
Fail(b) ==
    LET c == Count(b, "failures")
    IN IF Trips(c) THEN Open(c) ELSE c

ShortCircuitsNever(b) == FALSE

\* fire() short-circuits when the breaker is not closed and no probe is due
ShortCircuits(b) == b.state # "closed" /\ ~b.pendingClose

RECURSIVE TotalFires(_)
\* fires held by the rolling windows of the breakers named
TotalFires(names) ==
    IF names = {} THEN 0
    ELSE LET n == CHOOSE x \in names : TRUE
         IN Stats(circuitBreakers[n]).fires + TotalFires(names \ {n})

RECURSIVE TotalInflight(_)
\* provider calls in flight through the breakers named
TotalInflight(names) ==
    IF names = {} THEN 0
    ELSE LET n == CHOOSE x \in names : TRUE
         IN circuitBreakers[n].inflight + TotalInflight(names \ {n})

\* from: the state the breaker was in when the operation began
NoCbOp ==
    [op |-> "none", name |-> "", from |-> "", invoked |-> FALSE, outcome |-> "", error |-> ""]

createCircuitBreaker(name) ==
    /\ circuitBreakers' =
          IF ~CircuitBreakerEnabled THEN circuitBreakers
          ELSE [n \in DOMAIN circuitBreakers \cup {name} |->
                   IF n = name THEN NewBreaker ELSE circuitBreakers[n]]
    /\ cbOut' = [NoCbOp EXCEPT !.op = "create", !.name = name]

\* breaker.fire(text, sourceLang, targetLang) up to the call of the provider
Fire(name) ==
    /\ name \in DOMAIN circuitBreakers
    /\ TotalFires(DOMAIN circuitBreakers) < MaxFires
    /\ \/ ShortCircuits(circuitBreakers[name])
       \/ TotalInflight(DOMAIN circuitBreakers) < MaxInflight
    /\ LET b == Count(circuitBreakers[name], "fires")
       IN IF ShortCircuits(b)
          THEN /\ circuitBreakers' = [circuitBreakers EXCEPT ![name] = b]
               /\ cbOut' = [op |-> "fire", name |-> name,
                            from |-> circuitBreakers[name].state,
                            invoked |-> FALSE, outcome |-> "rejected",
                            error |-> Fallback(name, "EOPENBREAKER")]
          ELSE /\ circuitBreakers' =
                    [circuitBreakers EXCEPT
                        ![name] = [b EXCEPT !.pendingClose = FALSE, !.inflight = @ + 1]]
               /\ cbOut' = [op |-> "fire", name |-> name,
                            from |-> circuitBreakers[name].state,
                            invoked |-> TRUE, outcome |-> "pending", error |-> ""]

\* the provider's promise resolves
Succeed(name) ==
    /\ name \in DOMAIN circuitBreakers
    /\ circuitBreakers[name].inflight > 0
    /\ LET b == [circuitBreakers[name] EXCEPT !.inflight = @ - 1]
       IN circuitBreakers' =
             [circuitBreakers EXCEPT ![name] = IF b.state = "halfOpen" THEN Close(b) ELSE b]
    /\ cbOut' = [op |-> "settle", name |-> name, from |-> circuitBreakers[name].state,
                 invoked |-> TRUE, outcome |-> "success", error |-> ""]

\* the provider's promise rejects
Reject(name) ==
    /\ name \in DOMAIN circuitBreakers
    /\ circuitBreakers[name].inflight > 0
    /\ LET b == [circuitBreakers[name] EXCEPT !.inflight = @ - 1]
       IN circuitBreakers' = [circuitBreakers EXCEPT ![name] = Fail(b)]
    /\ cbOut' = [op |-> "settle", name |-> name, from |-> circuitBreakers[name].state,
                 invoked |-> TRUE, outcome |-> "error", error |-> Fallback(name, "provider error")]

\* the breaker's call timeout elapses before the provider answers
Timeout(name) ==
    /\ name \in DOMAIN circuitBreakers
    /\ circuitBreakers[name].inflight > 0
    /\ LET b == [circuitBreakers[name] EXCEPT !.inflight = @ - 1]
       IN circuitBreakers' = [circuitBreakers EXCEPT ![name] = Fail(b)]
    /\ cbOut' = [op |-> "settle", name |-> name, from |-> circuitBreakers[name].state,
                 invoked |-> TRUE, outcome |-> "timeout", error |-> Fallback(name, "ETIMEDOUT")]

\* resetTimeout after the breaker opened: half-open, one probe due
ResetTimeout(name) ==
    /\ name \in DOMAIN circuitBreakers
    /\ circuitBreakers[name].state = "open"
    /\ circuitBreakers' =
          [circuitBreakers EXCEPT ![name] = [@ EXCEPT !.state = "halfOpen", !.pendingClose = TRUE]]
    /\ cbOut' = NoCbOp

\* the rolling window moves on by one bucket
Rotate(name) ==
    /\ name \in DOMAIN circuitBreakers
    /\ LET w == circuitBreakers[name].window
       IN /\ w # [i \in 1..RollingBuckets |-> EmptyBucket]
          /\ circuitBreakers' =
                [circuitBreakers EXCEPT
                    ![name].window = <<EmptyBucket>> \o SubSeq(w, 1, Len(w) - 1)]
    /\ cbOut' = NoCbOp

resetCircuitBreaker(name) ==
    IF name \notin DOMAIN circuitBreakers
    THEN /\ cbOut' = [NoCbOp EXCEPT !.op = "reset", !.name = name, !.outcome = "false"]
         /\ UNCHANGED circuitBreakers
    ELSE /\ circuitBreakers' = [circuitBreakers EXCEPT ![name] = Close(@)]
         /\ cbOut' = [NoCbOp EXCEPT !.op = "reset", !.name = name, !.outcome = "true",
                                    !.from = circuitBreakers[name].state]

(***************************************************************************)
(* Text helpers (utils/helpers.ts).  A text is a sequence of characters.   *)
(***************************************************************************)
LowerCase == <<"a","b","c","d","e","f","g","h","i","j","k","l","m",
               "n","o","p","q","r","s","t","u","v","w","x","y","z">>
UpperCase == <<"A","B","C","D","E","F","G","H","I","J","K","L","M",
               "N","O","P","Q","R","S","T","U","V","W","X","Y","Z">>
Digits == {"0","1","2","3","4","5","6","7","8","9"}

LowerSet == {LowerCase[i] : i \in 1..Len(LowerCase)}
UpperSet == {UpperCase[i] : i \in 1..Len(UpperCase)}
LowerOf == [c \in UpperSet |-> LowerCase[CHOOSE i \in 1..Len(UpperCase) : UpperCase[i] = c]]

\* [a-zA-Z...]: the letters of the texts modelled are all ASCII
IsAlpha(c) == c \in LowerSet \/ c \in UpperSet

\* \s
IsSpace(c) == c \in {" ", "\t", "\n"}

\* \w, the class behind the \b of the glossary regex
IsWordChar(c) == IsAlpha(c) \/ c \in Digits \/ c = "_"

\* what the 'i' flag compares: the character with its case folded
FoldCase(c) == IF c \in UpperSet THEN LowerOf[c] ELSE c

countChars(text) == Len(text)

RECURSIVE CollapseSpaces(_)
\* text.replace(/\s+/g, ' ')
CollapseSpaces(s) ==
    IF s = <<>> THEN <<>>
    ELSE IF IsSpace(Head(s))
         THEN IF Len(s) > 1 /\ IsSpace(s[2])
              THEN CollapseSpaces(Tail(s))
              ELSE <<" ">> \o CollapseSpaces(Tail(s))
         ELSE <<Head(s)>> \o CollapseSpaces(Tail(s))

RECURSIVE TrimLeft(_)
TrimLeft(s) == IF s # <<>> /\ IsSpace(Head(s)) THEN TrimLeft(Tail(s)) ELSE s

RECURSIVE TrimRight(_)
TrimRight(s) ==
    IF s # <<>> /\ IsSpace(s[Len(s)]) THEN TrimRight(SubSeq(s, 1, Len(s) - 1)) ELSE s

\* String.prototype.trim
Trim(s) == TrimRight(TrimLeft(s))

normalizeWhitespace(text) == Trim(CollapseSpaces(text))

RECURSIVE AlphaChars(_)
\* text.replace(/[^a-zA-Z...]/g, '')
AlphaChars(s) ==
    IF s = <<>> THEN <<>>
    ELSE (IF IsAlpha(Head(s)) THEN <<Head(s)>> ELSE <<>>) \o AlphaChars(Tail(s))

\* alphaChars.length < text.length * 0.3, in tenths
isMostlySymbolsOrNumbers(text) == Len(AlphaChars(text)) * 10 < Len(text) * 3

KeepOpen == <<"<","k","e","e","p",">">>
KeepClose == <<"<","/","k","e","e","p",">">>

\* \b at the gap before position i of s
WordBoundary(s, i) ==
    (i - 1 >= 1 /\ i - 1 <= Len(s) /\ IsWordChar(s[i - 1]))
        # (i >= 1 /\ i <= Len(s) /\ IsWordChar(s[i]))

\* new RegExp(`\\b(${escapeRegex(term)})\\b`, 'gi') matches at position i:
\* the escaped term stands for its own characters
TermMatchesAt(s, term, i) ==
    /\ i + Len(term) - 1 <= Len(s)
    /\ \A j \in 1..Len(term) : FoldCase(s[i + j - 1]) = FoldCase(term[j])
    /\ WordBoundary(s, i)
    /\ WordBoundary(s, i + Len(term))

RECURSIVE WrapTerm(_, _, _)
\* result.replace(regex, `<keep>$1</keep>`) from position i on
WrapTerm(s, term, i) ==
    IF i > Len(s)
    THEN IF term = <<>> /\ i = Len(s) + 1 /\ TermMatchesAt(s, term, i)
         THEN KeepOpen \o KeepClose ELSE <<>>
    ELSE IF TermMatchesAt(s, term, i)
         THEN KeepOpen \o SubSeq(s, i, i + Len(term) - 1) \o KeepClose
                  \o (IF term = <<>> THEN <<s[i]>> \o WrapTerm(s, term, i + 1)
                      ELSE WrapTerm(s, term, i + Len(term)))
         ELSE <<s[i]>> \o WrapTerm(s, term, i + 1)

RECURSIVE applyGlossary(_, _)
\* the terms are wrapped one after the other, each on the result of the last
applyGlossary(text, preserveTerms) ==
    IF preserveTerms = <<>> THEN text
    ELSE applyGlossary(WrapTerm(text, Head(preserveTerms), 1), Tail(preserveTerms))

StartsWith(s, i, m) ==
    /\ i + Len(m) - 1 <= Len(s)
    /\ SubSeq(s, i, i + Len(m) - 1) = m

RECURSIVE StripMarkers(_, _)
StripMarkers(s, i) ==
    IF i > Len(s) THEN <<>>
    ELSE IF StartsWith(s, i, KeepOpen) THEN StripMarkers(s, i + Len(KeepOpen))
    ELSE IF StartsWith(s, i, KeepClose) THEN StripMarkers(s, i + Len(KeepClose))
    ELSE <<s[i]>> \o StripMarkers(s, i + 1)

\* text.replace(/<\/?keep>/g, '')
removeGlossaryMarkers(text) == StripMarkers(text, 1)

(***************************************************************************)
(* Language detection (services/languageDetector.ts).                      *)
(***************************************************************************)
\* config.languageDetection.minChars
MinChars == 10
\* config.languageDetection.confidenceThreshold, in hundredths
ConfidenceThreshold == 70

Und == [lang |-> "und", confidence |-> 0, isReliable |-> FALSE]
NoDetection == [lang |-> "", confidence |-> -1, isReliable |-> FALSE]

\* what the fastText model does when asked: it is not loaded, predict throws,
\* predict returns no prediction, or it returns a label with a confidence
DetectorOutcomes ==
    { [kind |-> k, lang |-> "", confidence |-> 0] : k \in {"nomodel", "throws", "empty"} }
    \cup { [kind |-> "prediction", lang |-> l, confidence |-> c] :
              l \in {"en", "es"}, c \in {50, 90} }

detectLanguage(text, d) ==
    IF text = <<>> \/ Trim(text) = <<>> THEN Und
    ELSE LET normalizedText == normalizeWhitespace(text)
         IN IF Len(normalizedText) < MinChars THEN Und
            ELSE IF isMostlySymbolsOrNumbers(normalizedText) THEN Und
            ELSE IF d.kind # "prediction" THEN Und
            ELSE [lang |-> d.lang, confidence |-> d.confidence,
                  isReliable |-> d.confidence >= ConfidenceThreshold]

(***************************************************************************)
(* The normalization pipeline (services/translationService.ts) and the     *)
(* provider factory (providers/factory.ts).                                *)
(***************************************************************************)
\* config.translation.defaultProvider, config.translation.defaultTargetLang
DefaultProvider == "deepl"
DefaultTargetLang == "en"

TextHolaMundo == <<"h","o","l","a"," ","m","u","n","d","o">>
TextShort == <<"h","o","l","a">>
TextPadded == <<"h","o","l","a"," "," "," "," ","h","i"," ">>
TextNumbers == <<"1","2","3","4","5"," ","6","7","8","9","a">>
TextBlank == <<" "," ">>
Texts == {TextHolaMundo, TextShort, TextPadded, TextNumbers, TextBlank}

TermHola == <<"H","o","l","a">>

\* request.source_lang and request.target_lang, "" when absent;
\* tenant.translator_provider, "" when the tenant has none
Requests ==
    [text : Texts, source_lang : {""}, target_lang : {"", "es"},
     provider : {"", "google", "bing"}, preserve : {<<>>, <<TermHola>>}]
    \cup
    [text : {TextHolaMundo}, source_lang : {"es", "und"}, target_lang : {"", "es"},
     provider : {"", "google", "bing"}, preserve : {<<>>, <<TermHola>>}]

\* the detector is asked only when the request names no source language
Detectors(r) ==
    IF r.source_lang = "" THEN DetectorOutcomes
    ELSE {[kind |-> "nomodel", lang |-> "", confidence |-> 0]}

\* the requests made while breakers are registered and at work
GuardedRequests ==
    { r \in Requests : /\ r.text = TextHolaMundo /\ r.source_lang = "es"
                       /\ r.target_lang = "" /\ r.preserve = <<>>
                       /\ r.provider \in {"", "google"} }
GuardedNames == {DefaultProvider}

\* what a provider may answer: a translation, with the markers it was sent
OutPlain == <<"h","e","l","l","o">>
OutMarked == KeepOpen \o <<"h","o","l","a">> \o KeepClose \o <<" ","w","o","r","l","d">>
ProviderOutputs == {OutPlain, OutMarked}

\* TranslationResult.detectedSourceLang ("" when undefined): the Google
\* adapter echoes the source language, the DeepL adapter reports its own
DetectedBy(name, src) == IF name = "google" THEN {src} ELSE {"", "pt"}

\* why a translate() fails: the adapter has no client, or the last attempt
\* of retry() failed with the provider library's own error class, or with
\* some other error
FailureCauses == {"unconfigured", "provider", "other"}

\* the error translate() throws for a cause: the Google adapter wraps every
\* error in a TranslationError, the DeepL adapter wraps a DeepLError and
\* rethrows anything else as it is
AdapterThrows(name, cause) ==
    IF name = "google" THEN "TranslationError"
    ELSE IF cause = "other" THEN "Error" ELSE "TranslationError"

\* what translate() may throw
ThrownBy(name) == { AdapterThrows(name, c) : c \in FailureCauses }

NoCalls == [provider |-> 0, name |-> "", text |-> <<>>, glossary |-> 0]
NoResponse ==
    [status |-> "none", source_lang |-> "", target_lang |-> "", text_original |-> <<>>,
     text_normalized |-> <<>>, translator |-> "", error |-> ""]
NoRequest ==
    [text |-> <<>>, source_lang |-> "", target_lang |-> "", provider |-> "", preserve |-> <<>>]
NoHistory == {}

\* request.target_lang || config.translation.defaultTargetLang
TargetLang(r) == IF r.target_lang # "" THEN r.target_lang ELSE DefaultTargetLang

\* getTranslatorForTenant: tenantProvider || config.translation.defaultProvider
ProviderFor(r) == IF r.provider # "" THEN r.provider ELSE DefaultProvider

SkipOnlyEqual(src, tgt) == src = tgt

\* sourceLang === targetLang || sourceLang === 'und'
Skip(src, tgt) == src = tgt \/ src = "und"

UsageRecord(r, src, provider) ==
    [source_lang |-> src, target_lang |-> TargetLang(r),
     chars_count |-> countChars(r.text), provider |-> provider]

\* usageLogRepository.create(data): the record handed over, and whether the
\* write went through or raised
Handed(data, sinkRaises) ==
    [source_lang |-> data.source_lang, target_lang |-> data.target_lang,
     chars_count |-> data.chars_count, provider |-> data.provider,
     written |-> ~sinkRaises]

trackUsageRethrows(resp, sinkRaises) ==
    IF sinkRaises THEN [NoResponse EXCEPT !.status = "error", !.error = "Error"] ELSE resp

\* await trackUsage(data): the create is awaited inside try/catch and its
\* error only logged; what normalizeText goes on to return
trackUsage(resp, sinkRaises) == resp

\* normalizeText up to its await of translator.translate: the skip path runs
\* to its return, an unknown provider name throws in the factory
normalizeText(r, d) ==
    /\ pc # "translating"
    /\ LET det == IF r.source_lang = "" THEN detectLanguage(r.text, d) ELSE NoDetection
           src == IF r.source_lang = "" THEN det.lang ELSE r.source_lang
           masked == IF Len(r.preserve) > 0 THEN applyGlossary(r.text, r.preserve)
                     ELSE r.text
       IN /\ req' = r
          /\ sourceLang' = src
          /\ detection' = det
          /\ IF Skip(src, TargetLang(r))
             THEN /\ \E sinkRaises \in BOOLEAN :
                       /\ usageLog' = <<Handed(UsageRecord(r, src, "none"), sinkRaises)>>
                       /\ response' = trackUsage(
                             [status |-> "ok", source_lang |-> src,
                              target_lang |-> TargetLang(r),
                              text_original |-> r.text, text_normalized |-> r.text,
                              translator |-> "none", error |-> ""], sinkRaises)
                  /\ calls' = NoCalls
                  /\ pc' = "done"
             ELSE IF ProviderFor(r) \notin Providers
             THEN /\ usageLog' = <<>>
                  /\ calls' = [NoCalls EXCEPT !.glossary = IF Len(r.preserve) > 0 THEN 1 ELSE 0]
                  /\ response' = [NoResponse EXCEPT !.status = "error",
                                                    !.error = "TranslationError"]
                  /\ pc' = "done"
             ELSE /\ usageLog' = <<>>
                  /\ calls' = [provider |-> 1, name |-> ProviderFor(r), text |-> masked,
                               glossary |-> IF Len(r.preserve) > 0 THEN 1 ELSE 0]
                  /\ response' = NoResponse
                  /\ pc' = "translating"
    /\ UNCHANGED history

\* translator.translate resolves: markers removed, usage tracked, response built
translateReturns(out, detected) ==
    /\ pc = "translating"
    /\ detected \in DetectedBy(calls.name, sourceLang)
    /\ \E sinkRaises \in BOOLEAN :
          /\ usageLog' =
                Append(usageLog, Handed(UsageRecord(req, sourceLang, calls.name), sinkRaises))
          /\ response' = trackUsage(
                [status |-> "ok",
                 source_lang |-> IF detected # "" THEN detected ELSE sourceLang,
                 target_lang |-> TargetLang(req),
                 text_original |-> req.text,
                 text_normalized |-> IF Len(req.preserve) > 0
                                     THEN removeGlossaryMarkers(out) ELSE out,
                 translator |-> calls.name, error |-> ""], sinkRaises)
    /\ history' = {[text |-> req.text, source_lang |-> sourceLang,
                    target_lang |-> TargetLang(req), provider |-> calls.name]}
    /\ pc' = "done"
    /\ UNCHANGED <<req, sourceLang, detection, calls>>

translateThrowsFallback(kind) ==
    /\ pc = "translating"
    /\ kind \in ThrownBy(calls.name)
    /\ IF calls.provider = 1
       THEN /\ calls' = [calls EXCEPT !.provider = 2,
                                      !.name = CHOOSE p \in Providers : p # calls.name]
            /\ UNCHANGED <<response, pc>>
       ELSE /\ response' = [NoResponse EXCEPT !.status = "error", !.error = kind]
            /\ pc' = "done"
            /\ UNCHANGED calls
    /\ UNCHANGED <<req, sourceLang, detection, usageLog, history>>

\* translator.translate rejects: normalizeText fails with what was thrown
translateThrows(kind) ==
    /\ pc = "translating"
    /\ kind \in ThrownBy(calls.name)
    /\ response' = [NoResponse EXCEPT !.status = "error", !.error = kind]
    /\ pc' = "done"
    /\ UNCHANGED <<req, sourceLang, detection, calls, usageLog, history>>

(***************************************************************************)
(* Batches (services/translationService.ts): normalizeTextBatch and        *)
(* normalizeTextBatchParallel over the single-item pipeline, each call of  *)
(* which is in flight until it resolves or rejects.                        *)
(***************************************************************************)
\* items of a batch at most, and the concurrency argument at most
MaxItems == 3
MaxConcurrency == 2

ItemTexts == {TextShort, TextHolaMundo}

\* request.items: record ids are the positions, the texts vary
BatchItemLists ==
    UNION { { [k \in 1..n |-> [record_id |-> k, text |-> t[k]]] : t \in [1..n -> ItemTexts] } :
            n \in 0..MaxItems }

Concurrencies == 1..MaxConcurrency

\* generateRequestId() of the batch call; 0 stands for no request id
BatchRequestId == 1

NoBatch ==
    [mode |-> "none", phase |-> "idle", items |-> <<>>, concurrency |-> 0, requestId |-> 0,
     i |-> 0, results |-> <<>>, totalChars |-> 0]
NoBatchResponse ==
    [status |-> "none", results |-> <<>>, total_items |-> 0, total_chars |-> 0,
     request_id |-> 0, error |-> ""]
\* nth: the place of the item among the pipelines that have settled
ItemPending == [st |-> "pending", request_id |-> 0, usage |-> FALSE, nth |-> 0]

ItemRequestIdOwn(requestId, k) == BatchRequestId + k

\* const reqId = requestId || generateRequestId(): a generated id is fresh
ItemRequestId(requestId, k) == IF requestId # 0 THEN requestId ELSE BatchRequestId + k

\* normalizeText(item, tenant, requestId) called for the items ks
StartItems(out, ks, requestId) ==
    [k \in DOMAIN out |->
        IF k \in ks
        THEN [st |-> "running", request_id |-> ItemRequestId(requestId, k), usage |-> FALSE,
              nth |-> 0]
        ELSE out[k]]

\* the concurrency argument when any whole number may be passed
AnyConcurrencies == (0 - MaxConcurrency)..MaxConcurrency

\* Array.prototype.slice: a start or end below zero counts from the end of
\* the array, and both are kept within 0..n
SliceIndex(x, n) == IF x < 0 THEN (IF n + x < 0 THEN 0 ELSE n + x) ELSE Min(x, n)

WindowWide(i, c, n) == (SliceIndex(i, n) + 1)..SliceIndex(i + c + 1, n)

\* request.items.slice(i, i + concurrency), as positions counted from 1
Window(i, c, n) == (SliceIndex(i, n) + 1)..SliceIndex(i + c, n)

\* i += concurrency; below -n every further slice is empty, and the index is
\* kept there
NextIndex(i, c, n) == IF i + c < 0 - n THEN 0 - n ELSE i + c

\* the positions a..b in order
Range(a, b) == [j \in 1..(b - a + 1) |-> a + j - 1]

\* the NormalizeResponse of item k
ItemResult(b, out, k) ==
    [record_id |-> b.items[k].record_id, request_id |-> out[k].request_id,
     chars |-> countChars(b.items[k].text)]

RECURSIVE SumChars(_, _, _)
\* totalChars += countChars(item.text) over the items a..b
SumChars(items, a, b) ==
    IF a > b THEN 0 ELSE countChars(items[a].text) + SumChars(items, a + 1, b)

BatchResponse(b) ==
    [status |-> "ok", results |-> b.results, total_items |-> Len(b.items),
     total_chars |-> b.totalChars, request_id |-> b.requestId, error |-> ""]

NoneRunning == \A k \in DOMAIN itemOut : itemOut[k].st # "running"

Settled == { k \in DOMAIN itemOut : itemOut[k].st \in {"ok", "failed"} }

\* normalizeTextBatch up to its first await: the first item's pipeline is
\* called; an empty list is answered at once
normalizeTextBatch(items) ==
    /\ batch.phase # "running" /\ NoneRunning
    /\ LET b0 == [mode |-> "seq", phase |-> "running", items |-> items, concurrency |-> 1,
                  requestId |-> BatchRequestId, i |-> 0, results |-> <<>>,
                  totalChars |-> 0]
       IN IF Len(items) = 0
          THEN /\ batch' = [b0 EXCEPT !.phase = "done"]
               /\ bresp' = BatchResponse(b0)
               /\ itemOut' = <<>>
               /\ started' = <<>>
          ELSE /\ batch' = b0
               /\ bresp' = NoBatchResponse
               /\ itemOut' = StartItems([k \in 1..Len(items) |-> ItemPending], {1},
                                        b0.requestId)
               /\ started' = <<1>>

\* normalizeTextBatchParallel up to its first await: the pipelines of the
\* first window are called, in order
normalizeTextBatchParallel(items, c) ==
    /\ batch.phase # "running" /\ NoneRunning
    /\ LET b0 == [mode |-> "par", phase |-> "running", items |-> items, concurrency |-> c,
                  requestId |-> BatchRequestId, i |-> 0, results |-> <<>>,
                  totalChars |-> 0]
           w == Window(0, c, Len(items))
       IN IF Len(items) = 0
          THEN /\ batch' = [b0 EXCEPT !.phase = "done"]
               /\ bresp' = BatchResponse(b0)
               /\ itemOut' = <<>>
               /\ started' = <<>>
          ELSE /\ batch' = b0
               /\ bresp' = NoBatchResponse
               /\ itemOut' = StartItems([k \in 1..Len(items) |-> ItemPending], w, b0.requestId)
               /\ started' = Range(1, SliceIndex(c, Len(items)))

\* the pipeline of item k resolves (its usage record written), and the batch
\* call, if it still awaits, goes on: pushes, starts what is next, or returns
ItemResolves(k) ==
    /\ k \in DOMAIN itemOut /\ itemOut[k].st = "running"
    /\ LET out1 == [itemOut EXCEPT ![k].st = "ok", ![k].usage = TRUE,
                                   ![k].nth = Cardinality(Settled) + 1]
           n == Len(batch.items)
           w == Window(batch.i, batch.concurrency, n)
           lo == SliceIndex(batch.i, n)
           hi == SliceIndex(batch.i + batch.concurrency, n)
           seq1 == [batch EXCEPT !.results = Append(@, ItemResult(batch, out1, k)),
                                 !.totalChars = @ + countChars(batch.items[k].text)]
           par1 == [batch EXCEPT
                       !.results = @ \o [j \in 1..(hi - lo) |->
                                            ItemResult(batch, out1, lo + j)],
                       !.totalChars = @ + SumChars(batch.items, lo + 1, hi),
                       !.i = NextIndex(@, batch.concurrency, n)]
       IN IF batch.phase # "running"
          THEN /\ itemOut' = out1
               /\ UNCHANGED <<batch, started, bresp>>
          ELSE IF batch.mode = "seq"
          THEN IF k < n
               THEN /\ batch' = seq1
                    /\ itemOut' = StartItems(out1, {k + 1}, batch.requestId)
                    /\ started' = Append(started, k + 1)
                    /\ UNCHANGED bresp
               ELSE /\ batch' = [seq1 EXCEPT !.phase = "done"]
                    /\ bresp' = BatchResponse(seq1)
                    /\ itemOut' = out1
                    /\ UNCHANGED started
          ELSE IF \E j \in w : out1[j].st # "ok"
          THEN /\ itemOut' = out1
               /\ UNCHANGED <<batch, started, bresp>>
          ELSE IF par1.i < n
          THEN /\ batch' = par1
               /\ itemOut' = StartItems(out1, Window(par1.i, par1.concurrency, n),
                                        batch.requestId)
               /\ started' = started \o Range(SliceIndex(par1.i, n) + 1,
                                               SliceIndex(par1.i + par1.concurrency, n))
               /\ UNCHANGED bresp
          ELSE /\ batch' = [par1 EXCEPT !.phase = "done"]
               /\ bresp' = BatchResponse(par1)
               /\ itemOut' = out1
               /\ UNCHANGED started

\* Promise.all([]) of an empty window resolves: nothing is pushed, the index
\* moves by concurrency, and the loop goes on or the call returns
EmptyWindowResolves ==
    /\ batch.phase = "running" /\ batch.mode = "par"
    /\ Window(batch.i, batch.concurrency, Len(batch.items)) = {}
    /\ LET n == Len(batch.items)
           par1 == [batch EXCEPT !.i = NextIndex(@, batch.concurrency, n)]
       IN IF par1.i < n
          THEN /\ batch' = par1
               /\ itemOut' = StartItems(itemOut, Window(par1.i, par1.concurrency, n),
                                        batch.requestId)
               /\ started' = started \o Range(SliceIndex(par1.i, n) + 1,
                                               SliceIndex(par1.i + par1.concurrency, n))
               /\ UNCHANGED bresp
          ELSE /\ batch' = [par1 EXCEPT !.phase = "done"]
               /\ bresp' = BatchResponse(par1)
               /\ UNCHANGED <<itemOut, started>>

ItemRejectsRollsBack(k) ==
    /\ k \in DOMAIN itemOut /\ itemOut[k].st = "running"
    /\ itemOut' = [j \in DOMAIN itemOut |->
                      IF j = k
                      THEN [itemOut[j] EXCEPT !.st = "failed",
                                              !.nth = Cardinality(Settled) + 1]
                      ELSE [itemOut[j] EXCEPT !.usage = FALSE]]
    /\ IF batch.phase = "running"
       THEN /\ batch' = [batch EXCEPT !.phase = "done"]
            /\ bresp' = [NoBatchResponse EXCEPT !.status = "error",
                                                !.error = "TranslationError"]
       ELSE UNCHANGED <<batch, bresp>>
    /\ UNCHANGED started

\* the pipeline of item k rejects: the awaiting batch call fails with it
ItemRejects(k) ==
    /\ k \in DOMAIN itemOut /\ itemOut[k].st = "running"
    /\ itemOut' = [itemOut EXCEPT ![k].st = "failed", ![k].nth = Cardinality(Settled) + 1]
    /\ IF batch.phase = "running"
       THEN /\ batch' = [batch EXCEPT !.phase = "done"]
            /\ bresp' = [NoBatchResponse EXCEPT !.status = "error",
                                                !.error = "TranslationError"]
       ELSE UNCHANGED <<batch, bresp>>
    /\ UNCHANGED started

(***************************************************************************)
(* The HTTP host: createApp mounts the rate limiter before the routes, the *)
(* normalize router runs simpleAuthMiddleware and then the handler of      *)
(* POST /v1/normalize/batch.  One request at a time is followed through.   *)
(***************************************************************************)
MaxRequests == 2

\* z.array(...).min(1).max(100)
MinBatchItems == 1
MaxBatchItems == 100

BatchSizes == {0, 1, 2, MaxBatchItems, MaxBatchItems + 1}

PathHealth == "/health"
PathBatch == "/v1/normalize/batch"
DevTenant == "dev-tenant"
ApiKeys == {"", "tl_key", "sk_key"}
Addresses == {"10.0.0.1", "10.0.0.2"}
BodyTenantIds == {"", "test-tenant"}

\* items as the tests build them: record ids are the positions
ItemsOf(n) == [k \in 1..n |-> [record_id |-> k, text |-> TextHolaMundo]]

NoBody == [tenant_id |-> "", items |-> <<>>]

NoHttp ==
    [phase |-> "idle", path |-> "", apiKey |-> "", ip |-> "", dev |-> FALSE,
     body |-> NoBody, tenant |-> "", rlKey |-> "", called |-> FALSE,
     status |-> 0, error |-> "", total_items |-> 0]

\* the requests followed: batch posts, and the health probe
HttpRequests ==
    { [NoHttp EXCEPT !.phase = "arrived", !.path = PathBatch, !.apiKey = a, !.ip = ip,
                     !.dev = dev, !.body = [tenant_id |-> t, items |-> ItemsOf(n)]] :
        a \in ApiKeys, ip \in Addresses, dev \in BOOLEAN, t \in BodyTenantIds,
        n \in BatchSizes }
    \cup { [NoHttp EXCEPT !.phase = "arrived", !.path = PathHealth, !.ip = ip] :
             ip \in Addresses }

\* skipRateLimit
skipRateLimit(r) == r.path = PathHealth

\* keyGenerator: the tenant id if the request carries one, otherwise the address
keyGenerator(r) ==
    IF r.tenant # ""
    THEN "tenant:" \o r.tenant
    ELSE "ip:" \o (IF r.ip # "" THEN r.ip ELSE "unknown")

RateKeys == {"tenant:" \o DevTenant} \cup { "ip:" \o ip : ip \in Addresses }

\* simpleAuthMiddleware: the tenant it attaches, "" when it rejects
KeyStartsWithTl(apiKey) == apiKey = "tl_key"
simpleAuthTenant(r) == IF r.dev /\ KeyStartsWithTl(r.apiKey) THEN DevTenant ELSE ""

SchemaAcceptsBelowMax(body) ==
    /\ body.tenant_id # ""
    /\ Len(body.items) >= MinBatchItems
    /\ Len(body.items) < MaxBatchItems

\* BatchNormalizeRequestSchema.safeParse(body).success
SchemaAccepts(body) ==
    /\ body.tenant_id # ""
    /\ Len(body.items) >= MinBatchItems
    /\ Len(body.items) <= MaxBatchItems

\* a request reaches the app
Arrive(r) ==
    /\ http.phase \in {"idle", "done"}
    /\ http' = r
    /\ UNCHANGED <<rateHits, batchVars>>

\* createRateLimiter(): skip, or count a hit under the key and compare with max
RateLimit ==
    /\ http.phase = "arrived"
    /\ IF skipRateLimit(http)
       THEN /\ http' = [http EXCEPT !.phase = "limited"]
            /\ UNCHANGED rateHits
       ELSE LET key == keyGenerator(http)
                totalHits == Min(rateHits[key] + 1, MaxRequests + 1)
            IN /\ rateHits' = [rateHits EXCEPT ![key] = totalHits]
               /\ IF totalHits > MaxRequests
                  THEN http' = [http EXCEPT !.phase = "done", !.rlKey = key,
                                            !.status = 429,
                                            !.error = "RATE_LIMIT_EXCEEDED"]
                  ELSE http' = [http EXCEPT !.phase = "limited", !.rlKey = key]
    /\ UNCHANGED batchVars

\* the window of a key runs out
WindowReset(key) ==
    /\ rateHits[key] > 0
    /\ rateHits' = [rateHits EXCEPT ![key] = 0]
    /\ UNCHANGED <<http, batchVars>>

\* GET /health: mounted before the normalize router, no authentication
HealthReply ==
    /\ http.phase = "limited" /\ http.path = PathHealth
    /\ http' = [http EXCEPT !.phase = "done", !.status = 200]
    /\ UNCHANGED <<rateHits, batchVars>>

\* router.use(simpleAuthMiddleware)
simpleAuthMiddleware ==
    /\ http.phase = "limited" /\ http.path = PathBatch
    /\ IF http.apiKey = ""
       THEN http' = [http EXCEPT !.phase = "done", !.status = 401,
                                 !.error = "AuthenticationError"]
       ELSE IF simpleAuthTenant(http) # ""
       THEN http' = [http EXCEPT !.phase = "authed", !.tenant = simpleAuthTenant(http)]
       ELSE http' = [http EXCEPT !.phase = "done", !.status = 401,
                                 !.error = "AuthenticationError"]
    /\ UNCHANGED <<rateHits, batchVars>>

\* the handler of POST /normalize/batch up to its await
PostNormalizeBatch ==
    /\ http.phase = "authed"
    /\ IF ~SchemaAccepts(http.body) \/ http.tenant = ""
       THEN /\ http' = [http EXCEPT !.phase = "done", !.status = 400,
                                    !.error = "ValidationError"]
            /\ UNCHANGED batchVars
       ELSE /\ normalizeTextBatch(http.body.items)
            /\ http' = [http EXCEPT !.phase = "processing", !.called = TRUE]
    /\ UNCHANGED rateHits

\* the handler after its await: res.status(200).json(result), or next(error);
\* the frame of the batch call is gone
BatchReplies ==
    /\ http.phase = "processing" /\ batch.phase = "done"
    /\ IF bresp.status = "ok"
       THEN http' = [http EXCEPT !.phase = "done", !.status = 200,
                                 !.total_items = bresp.total_items]
       ELSE http' = [http EXCEPT !.phase = "done", !.status = 500, !.error = bresp.error]
    /\ batch' = NoBatch
    /\ itemOut' = <<>>
    /\ started' = <<>>
    /\ bresp' = NoBatchResponse
    /\ UNCHANGED rateHits

(***************************************************************************)
(* The glossary helpers on their own (utils/helpers.ts): masking a text    *)
(* and taking the markers out again.                                       *)
(***************************************************************************)
MaxTerms == 2

TextHolaCases == <<"H","o","l","a"," ","H","O","L","A">>
TextKeepHola == <<"k","e","e","p"," ","h","o","l","a">>
TextHyphen == <<"h","o","l","a","-","m","u","n","d","o">>
TextHolas == <<"h","o","l","a","s"," ","h","o","l","a">>
GlossTexts == {TextShort, TextHolaMundo, TextHolaCases, TextKeepHola, TextHyphen, TextHolas}

TermMundo == <<"m","u","n","d","o">>
TermKeep == <<"k","e","e","p">>
GlossTerms == {TextShort, TermHola, TermMundo, TextHolaMundo, TermKeep}

\* the preserve lists: up to MaxTerms terms, repeats and overlaps included
GlossTermLists == UNION { [1..n -> GlossTerms] : n \in 0..MaxTerms }

NoGloss ==
    [applied |-> FALSE, text |-> <<>>, terms |-> <<>>, masked |-> <<>>, restored |-> <<>>]

\* removeGlossaryMarkers(applyGlossary(text, terms))
GlossaryRoundTrip(text, terms) ==
    /\ gloss' = [applied |-> TRUE, text |-> text, terms |-> terms,
                 masked |-> applyGlossary(text, terms),
                 restored |-> removeGlossaryMarkers(applyGlossary(text, terms))]
    /\ UNCHANGED <<http, rateHits, rt, tm>>

(***************************************************************************)
(* retry (utils/helpers.ts): fn is called until it resolves or maxRetries  *)
(* attempts have failed, with a sleep between the attempts.                *)
(***************************************************************************)
MaxAttempts == 4

\* maxRetries and baseDelay as they are passed
RetryCounts == 0..MaxAttempts
BaseDelays == {1000, 250}
FnErrors == {"E1", "E2"}
FnValues == {"v1", "v2"}

NoRetry ==
    [phase |-> "idle", maxRetries |-> 0, baseDelay |-> 0, attempt |-> 0,
     invocations |-> 0, errs |-> <<>>, waits |-> <<>>, result |-> "", error |-> ""]

BackoffDelayConstant(baseDelay, attempt) == baseDelay

\* baseDelay * Math.pow(2, attempt)
BackoffDelay(baseDelay, attempt) == baseDelay * 2^attempt

\* retry(fn, maxRetries, baseDelay) up to its first await: fn is called, or
\* the loop is not entered and the undefined lastError is thrown
retry(n, baseDelay) ==
    /\ rt.phase \in {"idle", "done"}
    /\ IF 0 < n
       THEN rt' = [NoRetry EXCEPT !.phase = "calling", !.maxRetries = n,
                                  !.baseDelay = baseDelay, !.invocations = 1]
       ELSE rt' = [NoRetry EXCEPT !.phase = "done", !.maxRetries = n,
                                  !.baseDelay = baseDelay, !.error = "undefined"]
    /\ UNCHANGED <<http, rateHits, gloss, tm>>

\* fn resolves: retry returns its value
FnResolves(v) ==
    /\ rt.phase = "calling"
    /\ rt' = [rt EXCEPT !.phase = "done", !.result = v]
    /\ UNCHANGED <<http, rateHits, gloss, tm>>

\* fn rejects: the error is kept, and either the sleep is started or, after
\* the last attempt, the loop ends and the error is thrown
FnRejects(e) ==
    /\ rt.phase = "calling"
    /\ IF rt.attempt < rt.maxRetries - 1
       THEN rt' = [rt EXCEPT !.phase = "sleeping", !.errs = Append(@, e),
                             !.waits = Append(@, BackoffDelay(rt.baseDelay, rt.attempt))]
       ELSE rt' = [rt EXCEPT !.phase = "done", !.errs = Append(@, e), !.error = e]
    /\ UNCHANGED <<http, rateHits, gloss, tm>>

\* the sleep is over: the next attempt calls fn
SleepDone ==
    /\ rt.phase = "sleeping"
    /\ rt' = [rt EXCEPT !.phase = "calling", !.attempt = @ + 1, !.invocations = @ + 1]
    /\ UNCHANGED <<http, rateHits, gloss, tm>>

(***************************************************************************)
(* The timeout middleware (middleware/timeout.ts): two timers of the same  *)
(* delay, the first answering 408, the second aborting the controller, and *)
(* one handler on the response's 'finish' and 'close' events.              *)
(***************************************************************************)
\* timerA: the first setTimeout (kept in originalTimeout); timerB: the second,
\* the one timeoutId names when the event handler runs; finished: the flag
\* of the closure; elapsed: the timeout ran out before the response finished
MaxTimeoutRequests == 3

NoTimeoutReq ==
    [id |-> 0, phase |-> "idle", skipped |-> FALSE, timerA |-> "none", timerB |-> "none",
     finished |-> FALSE, headersSent |-> FALSE, ended |-> FALSE,
     finishEmitted |-> FALSE, closeEmitted |-> FALSE, aborted |-> FALSE,
     sent408 |-> 0, elapsed |-> FALSE, finishedBefore |-> FALSE]

\* timeoutMiddleware(req, res, next): skipped on x-no-timeout, else both
\* timers are set and the handlers registered
timeoutMiddleware(noTimeout) ==
    /\ tm.phase = "idle" \/ (tm.closeEmitted /\ tm.timerA # "pending" /\ tm.timerB # "pending")
    /\ tm.id < MaxTimeoutRequests
    /\ tm' = IF noTimeout
             THEN [NoTimeoutReq EXCEPT !.id = tm.id + 1, !.phase = "active",
                                       !.skipped = TRUE]
             ELSE [NoTimeoutReq EXCEPT !.id = tm.id + 1, !.phase = "active",
                                       !.timerA = "pending", !.timerB = "pending"]
    /\ UNCHANGED <<http, rateHits, gloss, rt>>

\* the route writes the head of its answer (a streamed answer stays open)
HandlerSendsHeaders ==
    /\ tm.phase = "active" /\ ~tm.headersSent /\ ~tm.closeEmitted
    /\ tm' = [tm EXCEPT !.headersSent = TRUE]
    /\ UNCHANGED <<http, rateHits, gloss, rt>>

\* the route ends its answer
HandlerEnds ==
    /\ tm.phase = "active" /\ ~tm.ended /\ ~tm.closeEmitted
    /\ tm.headersSent => tm.sent408 = 0
    /\ tm' = [tm EXCEPT !.headersSent = TRUE, !.ended = TRUE]
    /\ UNCHANGED <<http, rateHits, gloss, rt>>

\* the first timer fires: nothing if finished, else 408 unless headers are out
TimerAFires ==
    /\ tm.timerA = "pending"
    /\ IF tm.finished
       THEN tm' = [tm EXCEPT !.timerA = "fired"]
       ELSE IF ~tm.headersSent
       THEN tm' = [tm EXCEPT !.timerA = "fired", !.finished = TRUE, !.elapsed = TRUE,
                             !.headersSent = TRUE, !.ended = TRUE, !.sent408 = @ + 1]
       ELSE tm' = [tm EXCEPT !.timerA = "fired", !.finished = TRUE, !.elapsed = TRUE]
    /\ UNCHANGED <<http, rateHits, gloss, rt>>

\* the second timer, set after the first with the same delay, fires after it:
\* controller.abort(), and clearTimeout(originalTimeout)
TimerBFires ==
    /\ tm.timerB = "pending" /\ tm.timerA # "pending"
    /\ tm' = [tm EXCEPT !.timerB = "fired", !.aborted = TRUE]
    /\ UNCHANGED <<http, rateHits, gloss, rt>>

\* clearTimeoutHandler: clearTimeout(timeoutId), which names the second
\* timer; the first is left to find finished set
clearTimeoutHandler(t) ==
    [t EXCEPT !.timerB = IF @ = "pending" THEN "cleared" ELSE @,
              !.finished = TRUE,
              !.finishedBefore = @ \/ (t.timerA = "pending" /\ ~t.elapsed)]

\* 'finish': the answer, the route's or the 408, has been handed over
ResFinish ==
    /\ tm.phase = "active" /\ tm.ended /\ ~tm.finishEmitted /\ ~tm.closeEmitted
    /\ tm' = IF tm.skipped THEN [tm EXCEPT !.finishEmitted = TRUE]
             ELSE [clearTimeoutHandler(tm) EXCEPT !.finishEmitted = TRUE]
    /\ UNCHANGED <<http, rateHits, gloss, rt>>

\* 'close': the connection is gone, after the answer or because the client
\* left
ResClose ==
    /\ tm.phase = "active" /\ ~tm.closeEmitted
    /\ tm' = IF tm.skipped THEN [tm EXCEPT !.closeEmitted = TRUE]
             ELSE [clearTimeoutHandler(tm) EXCEPT !.closeEmitted = TRUE]
    /\ UNCHANGED <<http, rateHits, gloss, rt>>

\* the module state of cache.ts, redis.ts, circuitBreaker.ts at load, and no
\* normalizeText call in progress
Init ==
    /\ memoryCache = <<>>
    /\ memoryCacheSize = 0
    /\ redisReady = FALSE
    /\ redisStore = [k \in RedisKeys |-> NoEntry]
    /\ now = 0
    /\ cacheOut = NoCacheOp
    /\ circuitBreakers = <<>>
    /\ cbOut = NoCbOp
    /\ pc = "idle"
    /\ req = NoRequest
    /\ sourceLang = ""
    /\ detection = NoDetection
    /\ calls = NoCalls
    /\ usageLog = <<>>
    /\ response = NoResponse
    /\ history = NoHistory
    /\ batch = NoBatch
    /\ itemOut = <<>>
    /\ started = <<>>
    /\ bresp = NoBatchResponse
    /\ http = NoHttp
    /\ rateHits = [k \in RateKeys |-> 0]
    /\ gloss = NoGloss
    /\ rt = NoRetry
    /\ tm = NoTimeoutReq

NextCache ==
    \/ (CacheGet /\ UNCHANGED <<breakerVars, pipeVars, batchVars, appVars>>)
    \/ (CacheSet /\ UNCHANGED <<breakerVars, pipeVars, batchVars, appVars>>)
    \/ (RedisStatusChange /\ UNCHANGED <<breakerVars, pipeVars, batchVars, appVars>>)
    \/ (Tick /\ UNCHANGED <<breakerVars, pipeVars, batchVars, appVars>>)
    \/ (CacheInvalidate /\ UNCHANGED <<breakerVars, pipeVars, batchVars, appVars>>)

\* the in-process cache of a deployment without a remote store
\* (config.redis.enabled false): translation sets, language-detection sets,
\* invalidations and the passing of time
NextCacheLocal ==
    \/ (CacheSet /\ UNCHANGED <<breakerVars, pipeVars, batchVars, appVars>>)
    \/ (LangSet /\ UNCHANGED <<breakerVars, pipeVars, batchVars, appVars>>)
    \/ (CacheInvalidate /\ UNCHANGED <<breakerVars, pipeVars, batchVars, appVars>>)
    \/ (Tick /\ UNCHANGED <<breakerVars, pipeVars, batchVars, appVars>>)

NextBreaker ==
    \/ \E n \in BreakerNames : createCircuitBreaker(n) /\ UNCHANGED <<cacheVars, pipeVars, batchVars, appVars>>
    \/ \E n \in BreakerNames : Fire(n) /\ UNCHANGED <<cacheVars, pipeVars, batchVars, appVars>>
    \/ \E n \in BreakerNames : Succeed(n) /\ UNCHANGED <<cacheVars, pipeVars, batchVars, appVars>>
    \/ \E n \in BreakerNames : Reject(n) /\ UNCHANGED <<cacheVars, pipeVars, batchVars, appVars>>
    \/ \E n \in BreakerNames : Timeout(n) /\ UNCHANGED <<cacheVars, pipeVars, batchVars, appVars>>
    \/ \E n \in BreakerNames : ResetTimeout(n) /\ UNCHANGED <<cacheVars, pipeVars, batchVars, appVars>>
    \/ \E n \in BreakerNames : Rotate(n) /\ UNCHANGED <<cacheVars, pipeVars, batchVars, appVars>>
    \/ \E n \in BreakerNames : resetCircuitBreaker(n) /\ UNCHANGED <<cacheVars, pipeVars, batchVars, appVars>>

NextPipeline ==
    \/ \E r \in Requests : \E d \in Detectors(r) :
          normalizeText(r, d) /\ UNCHANGED <<cacheVars, breakerVars, batchVars, appVars>>
    \/ \E out \in ProviderOutputs, detected \in {"", "en", "es", "pt"} :
          translateReturns(out, detected) /\ UNCHANGED <<cacheVars, breakerVars, batchVars, appVars>>
    \/ \E kind \in {"TranslationError", "Error"} :
          translateThrows(kind) /\ UNCHANGED <<cacheVars, breakerVars, batchVars, appVars>>

\* the pipeline beside a host that registers and drives the breaker of the
\* default provider through the exported breaker API
NextGuarded ==
    \/ \E r \in GuardedRequests : \E d \in Detectors(r) :
          normalizeText(r, d) /\ UNCHANGED <<cacheVars, breakerVars, batchVars, appVars>>
    \/ \E out \in ProviderOutputs, detected \in {"", "en", "es", "pt"} :
          translateReturns(out, detected) /\ UNCHANGED <<cacheVars, breakerVars, batchVars, appVars>>
    \/ \E kind \in {"TranslationError", "Error"} :
          translateThrows(kind) /\ UNCHANGED <<cacheVars, breakerVars, batchVars, appVars>>
    \/ \E n \in GuardedNames : createCircuitBreaker(n) /\ UNCHANGED <<cacheVars, pipeVars, batchVars, appVars>>
    \/ \E n \in GuardedNames : Fire(n) /\ UNCHANGED <<cacheVars, pipeVars, batchVars, appVars>>
    \/ \E n \in GuardedNames : Succeed(n) /\ UNCHANGED <<cacheVars, pipeVars, batchVars, appVars>>
    \/ \E n \in GuardedNames : Reject(n) /\ UNCHANGED <<cacheVars, pipeVars, batchVars, appVars>>
    \/ \E n \in GuardedNames : Timeout(n) /\ UNCHANGED <<cacheVars, pipeVars, batchVars, appVars>>
    \/ \E n \in GuardedNames : ResetTimeout(n) /\ UNCHANGED <<cacheVars, pipeVars, batchVars, appVars>>
    \/ \E n \in GuardedNames : resetCircuitBreaker(n) /\ UNCHANGED <<cacheVars, pipeVars, batchVars, appVars>>

NextBatch ==
    \/ \E items \in BatchItemLists :
          normalizeTextBatch(items) /\ UNCHANGED <<cacheVars, breakerVars, pipeVars, appVars>>
    \/ \E items \in BatchItemLists, c \in Concurrencies :
          normalizeTextBatchParallel(items, c) /\ UNCHANGED <<cacheVars, breakerVars, pipeVars, appVars>>
    \/ \E k \in 1..MaxItems :
          ItemResolves(k) /\ UNCHANGED <<cacheVars, breakerVars, pipeVars, appVars>>
    \/ \E k \in 1..MaxItems :
          ItemRejects(k) /\ UNCHANGED <<cacheVars, breakerVars, pipeVars, appVars>>

\* the app serving one request after another
NextHttp ==
    \/ \E r \in HttpRequests :
          Arrive(r) /\ UNCHANGED <<cacheVars, breakerVars, pipeVars, gloss, rt, tm>>
    \/ (RateLimit /\ UNCHANGED <<cacheVars, breakerVars, pipeVars, gloss, rt, tm>>)
    \/ \E key \in RateKeys :
          WindowReset(key) /\ UNCHANGED <<cacheVars, breakerVars, pipeVars, gloss, rt, tm>>
    \/ (HealthReply /\ UNCHANGED <<cacheVars, breakerVars, pipeVars, gloss, rt, tm>>)
    \/ (simpleAuthMiddleware /\ UNCHANGED <<cacheVars, breakerVars, pipeVars, gloss, rt, tm>>)
    \/ (PostNormalizeBatch /\ UNCHANGED <<cacheVars, breakerVars, pipeVars, gloss, rt, tm>>)
    \/ \E k \in 1..MaxBatchItems :
          ItemResolves(k) /\ UNCHANGED <<cacheVars, breakerVars, pipeVars, appVars>>
    \/ \E k \in 1..MaxBatchItems :
          ItemRejects(k) /\ UNCHANGED <<cacheVars, breakerVars, pipeVars, appVars>>
    \/ (BatchReplies /\ UNCHANGED <<cacheVars, breakerVars, pipeVars, gloss, rt, tm>>)

\* the helpers called on one text and term list after another
NextGloss ==
    \E text \in GlossTexts, terms \in GlossTermLists :
        GlossaryRoundTrip(text, terms) /\ UNCHANGED <<cacheVars, breakerVars, pipeVars, batchVars>>

\* retry called again and again, fn failing or not as it likes
NextRetry ==
    \/ \E n \in RetryCounts, d \in BaseDelays :
          retry(n, d) /\ UNCHANGED <<cacheVars, breakerVars, pipeVars, batchVars>>
    \/ \E v \in FnValues :
          FnResolves(v) /\ UNCHANGED <<cacheVars, breakerVars, pipeVars, batchVars>>
    \/ \E e \in FnErrors :
          FnRejects(e) /\ UNCHANGED <<cacheVars, breakerVars, pipeVars, batchVars>>
    \/ (SleepDone /\ UNCHANGED <<cacheVars, breakerVars, pipeVars, batchVars>>)

\* the parallel batch called with any whole number as its concurrency
NextBatchAny ==
    \/ \E items \in BatchItemLists, c \in AnyConcurrencies :
          normalizeTextBatchParallel(items, c) /\ UNCHANGED <<cacheVars, breakerVars, pipeVars, appVars>>
    \/ \E k \in 1..MaxItems :
          ItemResolves(k) /\ UNCHANGED <<cacheVars, breakerVars, pipeVars, appVars>>
    \/ \E k \in 1..MaxItems :
          ItemRejects(k) /\ UNCHANGED <<cacheVars, breakerVars, pipeVars, appVars>>
    \/ (EmptyWindowResolves /\ UNCHANGED <<cacheVars, breakerVars, pipeVars, appVars>>)

\* every pipeline call settles, and a resolved Promise.all is followed up
BatchFairness ==
    /\ WF_vars((\E k \in 1..MaxItems : ItemResolves(k) \/ ItemRejects(k))
                  /\ UNCHANGED <<cacheVars, breakerVars, pipeVars, appVars>>)
    /\ WF_vars(EmptyWindowResolves
                  /\ UNCHANGED <<cacheVars, breakerVars, pipeVars, appVars>>)

\* one request after another through the timeout middleware
NextTimeout ==
    \/ \E noTimeout \in BOOLEAN :
          timeoutMiddleware(noTimeout) /\ UNCHANGED <<cacheVars, breakerVars, pipeVars, batchVars>>
    \/ (HandlerSendsHeaders /\ UNCHANGED <<cacheVars, breakerVars, pipeVars, batchVars>>)
    \/ (HandlerEnds /\ UNCHANGED <<cacheVars, breakerVars, pipeVars, batchVars>>)
    \/ (TimerAFires /\ UNCHANGED <<cacheVars, breakerVars, pipeVars, batchVars>>)
    \/ (TimerBFires /\ UNCHANGED <<cacheVars, breakerVars, pipeVars, batchVars>>)
    \/ (ResFinish /\ UNCHANGED <<cacheVars, breakerVars, pipeVars, batchVars>>)
    \/ (ResClose /\ UNCHANGED <<cacheVars, breakerVars, pipeVars, batchVars>>)

Spec == Init /\ [][NextPipeline]_vars

SpecBatch == Init /\ [][NextBatch]_vars

SpecGuarded == Init /\ [][NextGuarded]_vars

SpecBreaker == Init /\ [][NextBreaker]_vars

SpecCache == Init /\ [][NextCache]_vars

SpecCacheLocal == Init /\ [][NextCacheLocal]_vars

SpecBatchAny == Init /\ [][NextBatchAny]_vars /\ BatchFairness

SpecHttp == Init /\ [][NextHttp]_vars

SpecTimeout == Init /\ [][NextTimeout]_vars

SpecRetry == Init /\ [][NextRetry]_vars

SpecGloss == Init /\ [][NextGloss]_vars

(***************************************************************************)
(* C1: a normalizeText request whose resolved source language equals the   *)
(* target language, or is 'und', is answered at once with text_normalized *)
(* = text_original = the request text and translator 'none'; exactly one   *)
(* usage record, with provider 'none', is handed to the usage sink; no     *)
(* provider adapter is invoked, no glossary masking is applied and no      *)
(* cache operation is made.                                                *)
(***************************************************************************)
C1_SkipPath ==
    pc # "idle" /\ (sourceLang = TargetLang(req) \/ sourceLang = "und")
        => /\ pc = "done"
           /\ response.status = "ok"
           /\ response.text_original = req.text
           /\ response.text_normalized = req.text
           /\ response.translator = "none"
           /\ Len(usageLog) = 1
           /\ usageLog[1].provider = "none"
           /\ calls.provider = 0
           /\ calls.glossary = 0
           /\ cacheOut.op = "none"

\* a request without source_lang, with preserve terms, whose language the
\* detector could not determine, answered on the skip path
C1_Witness ==
    /\ pc = "done" /\ req.source_lang = "" /\ sourceLang = "und"
    /\ req.preserve # <<>> /\ req.text = TextShort
    /\ response.text_normalized = TextShort /\ response.translator = "none"
    /\ Len(usageLog) = 1

(***************************************************************************)
(* C2: for a request that does not supply source_lang, if the detector's   *)
(* confidence is below the confidence threshold or the whitespace-         *)
(* normalized text is shorter than the minimum length, the resolved source *)
(* language is 'und' and no provider translate call is made.               *)
(***************************************************************************)
C2_LowConfidenceUndetermined ==
    ( /\ pc # "idle" /\ req.source_lang = ""
      /\ \/ detection.confidence < ConfidenceThreshold
         \/ Len(normalizeWhitespace(req.text)) < MinChars )
        => sourceLang = "und" /\ calls.provider = 0

\* the half of C2 about short texts alone
C2_ShortTextUndetermined ==
    ( /\ pc # "idle" /\ req.source_lang = ""
      /\ Len(normalizeWhitespace(req.text)) < MinChars )
        => sourceLang = "und" /\ calls.provider = 0

(***************************************************************************)
(* C3: normalizeText never starts a provider translate call while the      *)
(* breaker registered for the selected provider is open.                   *)
(***************************************************************************)
C3_NoCallWhileOpen ==
    [][ pc # "translating" /\ pc' = "translating"
            => ~ ( /\ calls'.name \in DOMAIN circuitBreakers
                   /\ circuitBreakers[calls'.name].state = "open" ) ]_vars

(***************************************************************************)
(* C4: a request identical (text, source language, target language,        *)
(* provider) to the one a provider answered successfully just before is    *)
(* answered without invoking the provider adapter.                         *)
(***************************************************************************)
C4_SecondFromCache ==
    [][ pc # "translating" /\ pc' = "translating"
            => [text |-> req'.text, source_lang |-> sourceLang',
                target_lang |-> TargetLang(req'), provider |-> calls'.name]
                   \notin history ]_vars

(***************************************************************************)
(* C11: invalidateCache(pattern) removes every local entry whose key       *)
(* starts with pattern and, when the remote store is reachable and does    *)
(* not fail, every matching remote key; it returns the number of entries   *)
(* removed across both tiers; a remote error contributes zero and the      *)
(* local entries are still removed.                                        *)
(***************************************************************************)
RemoteMatches(p, raised) ==
    IF redisReady /\ ~raised
    THEN { k \in DOMAIN redisStore :
             /\ redisStore[k] # NoEntry /\ redisStore[k].expireAt > now
             /\ KeyStartsWith(k, KeyPrefix \o p) }
    ELSE {}

LocalMatches(p) == { i \in 1..Len(memoryCache) : KeyStartsWith(memoryCache[i].key, p) }

C11_Invalidate ==
    [][ cacheOut'.op = "invalidate" =>
          /\ \A i \in 1..Len(memoryCache') : ~KeyStartsWith(memoryCache'[i].key, cacheOut'.key)
          /\ \A k \in RemoteMatches(cacheOut'.key, cacheOut'.raised) : redisStore'[k] = NoEntry
          /\ cacheOut'.count = Cardinality(LocalMatches(cacheOut'.key))
                               + Cardinality(RemoteMatches(cacheOut'.key, cacheOut'.raised))
      ]_vars

\* the local half of C11: the matching local entries go, the others stay,
\* and a failing or unreachable remote store adds nothing to the count
C11_InvalidateLocal ==
    [][ cacheOut'.op = "invalidate" =>
          /\ memoryCache' = SelectSeq(memoryCache,
                               LAMBDA e : ~KeyStartsWith(e.key, cacheOut'.key))
          /\ (cacheOut'.raised \/ ~redisReady)
                => cacheOut'.count = Cardinality(LocalMatches(cacheOut'.key))
      ]_vars

(***************************************************************************)
(* C12: a remote store that is unavailable, or whose get or set raises,    *)
(* never surfaces from getCachedTranslation or setCachedTranslation: the   *)
(* get returns the value of the live local entry of the key, or null when  *)
(* there is none; the set completes with the entry written locally and the *)
(* remote store untouched.                                                 *)
(***************************************************************************)
LocalLiveValue(k) ==
    IF \E i \in 1..Len(memoryCache) : memoryCache[i].key = k /\ memoryCache[i].expiry > now
    THEN memoryCache[CHOOSE i \in 1..Len(memoryCache) : memoryCache[i].key = k].value
    ELSE NoValue

C12_RemoteFailureAbsorbed ==
    [][ /\ ( cacheOut'.op = "get" /\ (cacheOut'.raised \/ ~redisReady) )
              => cacheOut'.value = LocalLiveValue(cacheOut'.key)
        /\ ( cacheOut'.op = "set" /\ (cacheOut'.raised \/ ~redisReady) )
              => /\ redisStore' = redisStore
                 /\ \E i \in 1..Len(memoryCache') :
                       /\ memoryCache'[i].key = cacheOut'.key
                       /\ memoryCache'[i].value = cacheOut'.value
                       /\ memoryCache'[i].expiry = now + cacheOut'.ttl * MsPerSecond
      ]_vars

\* a get whose remote read raised, answered with the live local entry
C12_Witness ==
    /\ cacheOut.op = "get" /\ cacheOut.raised /\ redisReady
    /\ cacheOut.value = "hello"
    /\ \E i \in 1..Len(memoryCache) :
          memoryCache[i].key = cacheOut.key /\ memoryCache[i].value = "hello"

(***************************************************************************)
(* C13: every failure of a provider adapter's translate reaches the caller *)
(* as a TranslationError: normalizeText fails only with ValidationError or *)
(* TranslationError.                                                       *)
(***************************************************************************)
C13_OnlyTranslationError ==
    response.status = "error" => response.error \in {"ValidationError", "TranslationError"}

\* the same for the requests served by the Google adapter alone
C13_GoogleOnlyTranslationError ==
    response.status = "error" /\ calls.name = "google" => response.error = "TranslationError"

(***************************************************************************)
(* C14: a request invokes at most one provider adapter, the one selected   *)
(* for the tenant; when its translate call fails, normalizeText fails with *)
(* the error that call threw, and nothing more is invoked for the request. *)
(***************************************************************************)
C14_NoProviderFallback ==
    [][ /\ calls'.provider <= 1
        /\ calls'.provider = 1 => calls'.name = ProviderFor(req')
        /\ ( pc = "translating" /\ response'.status # "ok" )
              => /\ pc' = "done"
                 /\ response'.status = "error"
                 /\ response'.error \in ThrownBy(calls.name)
                 /\ calls' = calls
                 /\ usageLog' = <<>>
      ]_vars

\* the Google adapter, selected by the tenant, failed and the request failed
C14_Witness ==
    /\ pc = "done" /\ response.status = "error" /\ response.error = "TranslationError"
    /\ req.provider = "google" /\ calls.provider = 1 /\ calls.name = "google"

(***************************************************************************)
(* C15: a usage record whose write raised never fails the request: on the  *)
(* skip path and on the translation path normalizeText returns the         *)
(* response it returns when the write succeeds (the request text echoed or *)
(* the provider's output unmasked, with the translator that served it).    *)
(***************************************************************************)
C15_SinkFailureAbsorbed ==
    Len(usageLog) = 1 /\ ~usageLog[1].written
        => /\ pc = "done"
           /\ response.status = "ok"
           /\ response.text_original = req.text
           /\ response.target_lang = TargetLang(req)
           /\ IF calls.provider = 0
              THEN /\ response.translator = "none"
                   /\ response.text_normalized = req.text
                   /\ response.source_lang = sourceLang
              ELSE /\ response.translator = calls.name
                   /\ \E out \in ProviderOutputs :
                         response.text_normalized =
                            IF Len(req.preserve) > 0 THEN removeGlossaryMarkers(out) ELSE out

\* a translated request whose usage record could not be written
C15_Witness ==
    /\ pc = "done" /\ calls.provider = 1 /\ Len(usageLog) = 1 /\ ~usageLog[1].written
    /\ response.status = "ok" /\ response.translator = "deepl"
    /\ response.text_normalized = OutPlain

(***************************************************************************)
(* C16: normalizeTextBatch runs the items one at a time in input order     *)
(* (the pipeline of an item is called only when those of all the items     *)
(* before it have completed), hands the batch's request id to every item   *)
(* and to the batch meta, and returns results[i] for items[i], with        *)
(* total_items the number of items and total_chars the sum of their        *)
(* character counts.                                                       *)
(***************************************************************************)
Running == { k \in DOMAIN itemOut : itemOut[k].st = "running" }

C16_SequentialBatch ==
    batch.mode = "seq" =>
        /\ Cardinality(Running) <= 1
        /\ started = Range(1, Len(started))
        /\ \A k \in DOMAIN itemOut :
              itemOut[k].st # "pending"
                 => /\ \A j \in 1..(k - 1) : itemOut[j].st = "ok"
                    /\ itemOut[k].request_id = batch.requestId
        /\ bresp.status = "ok"
              => /\ bresp.request_id = batch.requestId
                 /\ Len(bresp.results) = Len(batch.items)
                 /\ \A i \in 1..Len(batch.items) :
                       /\ bresp.results[i].record_id = batch.items[i].record_id
                       /\ bresp.results[i].request_id = batch.requestId
                 /\ bresp.total_items = Len(batch.items)
                 /\ bresp.total_chars = SumChars(batch.items, 1, Len(batch.items))

\* a sequential batch of three items of different lengths, answered
C16_Witness ==
    /\ batch.mode = "seq" /\ bresp.status = "ok" /\ Len(batch.items) = 3
    /\ batch.items[1].text = TextShort /\ batch.items[2].text = TextHolaMundo
    /\ bresp.total_chars = 2 * Len(TextShort) + Len(TextHolaMundo)
    /\ started = <<1, 2, 3>>

(***************************************************************************)
(* C17: normalizeTextBatchParallel with concurrency c >= 1 never has more  *)
(* than c item pipelines in flight, calls the pipelines of a window only   *)
(* when every item of the windows before it has completed, and returns     *)
(* results[i] for items[i] whatever order the calls complete in.           *)
(***************************************************************************)
C17_ParallelWindows ==
    batch.mode = "par" /\ batch.concurrency >= 1 =>
        /\ Cardinality(Running) <= batch.concurrency
        /\ \A k \in DOMAIN itemOut :
              itemOut[k].st # "pending"
                 => \A j \in 1..(((k - 1) \div batch.concurrency) * batch.concurrency) :
                       itemOut[j].st = "ok"
        /\ bresp.status = "ok"
              => /\ Len(bresp.results) = Len(batch.items)
                 /\ \A i \in 1..Len(batch.items) :
                       bresp.results[i].record_id = batch.items[i].record_id

\* a parallel batch answered in input order although the second item of its
\* first window completed before the first
C17_Witness ==
    /\ batch.mode = "par" /\ batch.concurrency = 2 /\ Len(batch.items) = 3
    /\ bresp.status = "ok"
    /\ itemOut[2].nth < itemOut[1].nth
    /\ bresp.results[1].record_id = 1 /\ bresp.results[2].record_id = 2

(***************************************************************************)
(* C18: batch request validation accepts a batch exactly when its item     *)
(* count n satisfies 1 <= n <= 100, all other fields being valid: a batch  *)
(* of 100 items is handed to normalizeTextBatch, batches of 101 and of 0   *)
(* items are answered with a ValidationError and normalizeTextBatch is not *)
(* called, so no item's pipeline is started.                               *)
(***************************************************************************)
C18_BatchSizeBoundary ==
    (/\ http.path = PathBatch
     /\ http.tenant # ""
     /\ http.body.tenant_id # ""
     /\ http.phase \in {"processing", "done"})
    => IF 1 <= Len(http.body.items) /\ Len(http.body.items) <= 100
       THEN /\ http.called
            /\ http.error # "ValidationError"
            /\ http.phase = "processing" => Len(batch.items) = Len(http.body.items)
       ELSE /\ http.error = "ValidationError"
            /\ ~http.called
            /\ batch = NoBatch /\ itemOut = <<>> /\ started = <<>>

\* a batch of exactly 100 items was accepted, processed and answered
C18_Witness ==
    /\ http.phase = "done" /\ http.status = 200
    /\ Len(http.body.items) = 100
    /\ http.called /\ http.total_items = 100

\* a batch of 101 items was rejected by the handler
C18_WitnessOver ==
    /\ http.phase = "done" /\ http.error = "ValidationError"
    /\ http.tenant # "" /\ http.body.tenant_id # ""
    /\ Len(http.body.items) = 101

\* an empty batch was rejected by the handler
C18_WitnessEmpty ==
    /\ http.phase = "done" /\ http.error = "ValidationError"
    /\ http.tenant # "" /\ http.body.tenant_id # ""
    /\ Len(http.body.items) = 0

\* the marker syntax, <keep> or </keep>, stands somewhere in s
HasMarker(s) ==
    \E i \in 1..Len(s) : StartsWith(s, i, KeepOpen) \/ StartsWith(s, i, KeepClose)

(***************************************************************************)
(* C19: removeGlossaryMarkers(applyGlossary(text, terms)) = text for every *)
(* text and every list of preserve terms that do not contain the marker    *)
(* syntax: several terms, overlapping or repeated terms, occurrences in    *)
(* any letter case.                                                        *)
(***************************************************************************)
C19_GlossaryRoundTrip ==
    (/\ gloss.applied
     /\ ~HasMarker(gloss.text)
     /\ \A j \in 1..Len(gloss.terms) : ~HasMarker(gloss.terms[j]))
    => gloss.restored = gloss.text

\* a term is met inside the markers an earlier term left
TermInsideMarker(terms) ==
    \E j \in 1..Len(terms) :
        \E i \in 1..Len(KeepClose) :
            TermMatchesAt(KeepOpen, terms[j], i) \/ TermMatchesAt(KeepClose, terms[j], i)

\* what holds: the round trip gives the text back whenever no term of the
\* list occurs inside the marker itself
C19_RoundTripOutsideMarkers ==
    (gloss.applied /\ ~TermInsideMarker(gloss.terms)) => gloss.restored = gloss.text

\* several terms, one of them repeated in another case, were masked and the
\* text came back
C19_Masked ==
    /\ gloss.applied /\ Len(gloss.terms) = 2
    /\ gloss.masked # gloss.text
    /\ gloss.restored = gloss.text

(***************************************************************************)
(* C20: a request authenticated as tenant T is admitted or rejected by the *)
(* rate limiter under the key 'tenant:T'; only requests without a tenant   *)
(* context are rate limited under 'ip:<address>'.                          *)
(***************************************************************************)
C20_TenantKeyed ==
    (http.tenant # "" /\ http.rlKey # "") => http.rlKey = "tenant:" \o http.tenant

\* what the app does instead: every rate-limited request is counted under
\* the key of its address, whether or not it is authenticated afterwards
C20_KeyedByAddress ==
    http.rlKey # "" => http.rlKey = "ip:" \o http.ip

\* the bucket of a tenant is never touched
C20_TenantBucketUnused == rateHits["tenant:" \o DevTenant] = 0

(***************************************************************************)
(* C21: on the translation path the response of normalizeText carries      *)
(* text_original = the request text, text_normalized = the provider's      *)
(* output with the preservation markers stripped, translator = the name of *)
(* the provider invoked, and source_lang = the resolved source language    *)
(* (supplied, else detected), the one also written to the usage record.    *)
(***************************************************************************)
C21_TranslationResponse ==
    [][\A out \in ProviderOutputs, detected \in {"", "en", "es", "pt"} :
          translateReturns(out, detected) =>
             /\ response'.text_original = req.text
             /\ response'.text_normalized = removeGlossaryMarkers(out)
             /\ response'.translator = calls.name
             /\ response'.source_lang = sourceLang
             /\ usageLog'[Len(usageLog')].source_lang = response'.source_lang]_vars

\* what holds: original text, translator name, the usage record's language,
\* and the markers stripped whenever the tenant has preserve terms
C21_TextAndTranslator ==
    [][\A out \in ProviderOutputs, detected \in {"", "en", "es", "pt"} :
          translateReturns(out, detected) =>
             /\ response'.text_original = req.text
             /\ response'.translator = calls.name
             /\ usageLog'[Len(usageLog')].source_lang = sourceLang
             /\ Len(req.preserve) > 0 =>
                   response'.text_normalized = removeGlossaryMarkers(out)]_vars

\* with a provider that reports no language of its own the response and the
\* usage record agree on the resolved source language
C21_SourceLangWhenNotReported ==
    [][\A out \in ProviderOutputs :
          translateReturns(out, "") =>
             /\ response'.source_lang = sourceLang
             /\ usageLog'[Len(usageLog')].source_lang = response'.source_lang]_vars

\* the response and the usage record name different source languages
C21_LanguagesDisagree ==
    /\ pc = "done" /\ response.status = "ok" /\ response.translator # "none"
    /\ Len(usageLog) > 0
    /\ usageLog[Len(usageLog)].source_lang # response.source_lang

(***************************************************************************)
(* C22: each setCachedTranslation call writes the entry to exactly one     *)
(* tier: to the remote store when the remote write succeeds, the local map *)
(* left as it was, and to the local map alone when the remote store is     *)
(* unavailable or the remote write fails; never to both.                   *)
(***************************************************************************)
C22_OneTier ==
    [][cacheOut'.op = "set" =>
          IF redisReady /\ ~cacheOut'.raised
          THEN /\ redisStore'[KeyPrefix \o cacheOut'.key] =
                     [value |-> cacheOut'.value,
                      expireAt |-> now + cacheOut'.ttl * MsPerSecond]
               /\ memoryCache' = memoryCache
               /\ memoryCacheSize' = memoryCacheSize
          ELSE /\ redisStore' = redisStore
               /\ MapHas(memoryCache', cacheOut'.key)
               /\ memoryCache'[MapIndex(memoryCache', cacheOut'.key)] =
                     [key |-> cacheOut'.key, value |-> cacheOut'.value,
                      expiry |-> now + cacheOut'.ttl * MsPerSecond]]_vars

\* a set whose remote write failed left the entry in the local map and not
\* in the remote store
C22_Witness ==
    /\ cacheOut.op = "set" /\ cacheOut.raised /\ redisReady
    /\ MapHas(memoryCache, cacheOut.key)
    /\ redisStore[KeyPrefix \o cacheOut.key] = NoEntry

\* a set whose remote write succeeded left the local map empty
C22_WitnessRemote ==
    /\ cacheOut.op = "set" /\ ~cacheOut.raised /\ redisReady
    /\ redisStore[KeyPrefix \o cacheOut.key] # NoEntry
    /\ memoryCache = <<>>

(***************************************************************************)
(* C23: after any sequence of cache operations (translation sets, language *)
(* detection sets, invalidations, overwrites of an existing key) the local *)
(* in-process map never holds more entries than cache.maxSize.             *)
(***************************************************************************)
C23_LocalMapBounded == Len(memoryCache) <= CacheMaxSize

(***************************************************************************)
(* C26: the counter memoryCacheSize always equals the number of entries in *)
(* the local cache map, after any sequence of setCachedTranslation (a key  *)
(* set again included), setCachedLanguageDetection, invalidateCache,       *)
(* expiry cleanup and capacity eviction.                                   *)
(***************************************************************************)
C26_CounterMatchesMap == memoryCacheSize = Len(memoryCache)

\* what holds: the counter never goes below zero
C26_CounterNotNegative == memoryCacheSize >= 0

(***************************************************************************)
(* C24: retry(fn, N, baseDelay) invokes fn at most N times, returns the    *)
(* first successful result without any further invocation, waits           *)
(* baseDelay * 2^k between failed attempt k (counted from 0) and attempt   *)
(* k + 1, does not wait after the final failed attempt, and then fails     *)
(* with the error of the last attempt.                                     *)
(***************************************************************************)
C24_Retry ==
    /\ rt.invocations <= rt.maxRetries
    /\ \A j \in 1..Len(rt.waits) : rt.waits[j] = rt.baseDelay * 2^(j - 1)
    /\ rt.phase = "calling" =>
          /\ Len(rt.errs) = rt.invocations - 1 /\ Len(rt.waits) = Len(rt.errs)
    /\ rt.phase = "sleeping" =>
          /\ Len(rt.errs) = rt.invocations /\ Len(rt.waits) = Len(rt.errs)
          /\ rt.invocations < rt.maxRetries
    /\ (rt.phase = "done" /\ rt.error = "") =>
          /\ rt.result \in FnValues
          /\ rt.invocations = Len(rt.errs) + 1
          /\ Len(rt.waits) = Len(rt.errs)
    /\ (rt.phase = "done" /\ rt.error # "" /\ rt.maxRetries >= 1) =>
          /\ rt.invocations = rt.maxRetries
          /\ Len(rt.errs) = rt.maxRetries
          /\ Len(rt.waits) = rt.maxRetries - 1
          /\ rt.error = rt.errs[Len(rt.errs)]

\* three attempts failed with two waits between them, the last error other
\* than the first, and retry threw the last one
C24_Witness ==
    /\ rt.phase = "done" /\ rt.maxRetries = 3 /\ rt.baseDelay = 1000
    /\ rt.waits = <<1000, 2000>>
    /\ rt.errs = <<"E1", "E1", "E2">> /\ rt.error = "E2"

\* the second attempt succeeded after one wait
C24_WitnessSuccess ==
    /\ rt.phase = "done" /\ rt.result = "v1" /\ rt.invocations = 2
    /\ rt.waits = <<rt.baseDelay>>

(***************************************************************************)
(* C25: at most one circuit breaker is ever created per provider name: a   *)
(* later createCircuitBreaker for a name already registered never replaces *)
(* the breaker, so its state and rolling counters are never lost.          *)
(***************************************************************************)
C25_NeverReplaced ==
    [][(cbOut'.op = "create" /\ cbOut'.name \in DOMAIN circuitBreakers)
          => circuitBreakers'[cbOut'.name] = circuitBreakers[cbOut'.name]]_vars

\* what holds: a create leaves the breakers of the other names alone, and
\* no breaker is ever taken out of the registry
C25_OthersKept ==
    [][/\ DOMAIN circuitBreakers \subseteq DOMAIN circuitBreakers'
       /\ cbOut'.op = "create" =>
             \A n \in DOMAIN circuitBreakers \ {cbOut'.name} :
                 circuitBreakers'[n] = circuitBreakers[n]]_vars

(***************************************************************************)
(* C29: while a breaker is half-open and its probe call is in flight,      *)
(* every call that arrives is short-circuited: at most one provider        *)
(* invocation is in flight for a half-open breaker, under any interleaving *)
(* of concurrent requests to the same provider.                            *)
(***************************************************************************)
C29_OneInFlightHalfOpen ==
    \A n \in DOMAIN circuitBreakers :
        circuitBreakers[n].state = "halfOpen" => circuitBreakers[n].inflight <= 1

\* what holds: a call that arrives at a half-open breaker whose probe has
\* been let through is short-circuited
C29_ArrivalsShortCircuited ==
    [][\A n \in DOMAIN circuitBreakers :
          (/\ circuitBreakers[n].state = "halfOpen" /\ ~circuitBreakers[n].pendingClose
           /\ cbOut'.op = "fire" /\ cbOut'.name = n)
          => (/\ ~cbOut'.invoked /\ cbOut'.outcome = "rejected"
              /\ circuitBreakers'[n].inflight = circuitBreakers[n].inflight)]_vars

\* what holds: a half-open breaker lets one call through, the probe
C29_OneProbe ==
    [][\A n \in DOMAIN circuitBreakers :
          (/\ circuitBreakers[n].state = "halfOpen"
           /\ cbOut'.op = "fire" /\ cbOut'.name = n /\ cbOut'.invoked)
          => (circuitBreakers[n].pendingClose /\ ~circuitBreakers'[n].pendingClose)]_vars

(***************************************************************************)
(* C27: normalizeTextBatchParallel terminates (returns a response or       *)
(* fails) for every non-empty batch and every whole-number concurrency,    *)
(* 0 and negative values included, provided every single-item pipeline     *)
(* call terminates.                                                        *)
(***************************************************************************)
C27_Terminates ==
    [](batch.phase = "running" => <>(batch.phase = "done"))

\* what holds: with a concurrency of 1 or more the call terminates
C27_TerminatesPositive ==
    []((batch.phase = "running" /\ batch.concurrency >= 1) => <>(batch.phase = "done"))

\* the loop is at an empty window that its index can never leave
C27_Stuck ==
    /\ batch.phase = "running" /\ NoneRunning
    /\ Window(batch.i, batch.concurrency, Len(batch.items)) = {}
    /\ NextIndex(batch.i, batch.concurrency, Len(batch.items)) = batch.i

(***************************************************************************)
(* C28: if a batch call fails on some item, no result is returned for any  *)
(* item and no later item or window is started, yet the usage records      *)
(* already written for earlier items (sequential mode), or written by the  *)
(* other in-flight items of the same window, which run on to completion    *)
(* (parallel mode), remain: usage accounting is per item, not per batch.   *)
(***************************************************************************)
C28_FailedBatch ==
    (batch.phase = "done" /\ bresp.status = "error") =>
        /\ bresp.results = <<>>
        /\ \E f \in DOMAIN itemOut : itemOut[f].st = "failed"
        /\ \A k \in DOMAIN itemOut :
              k > started[Len(started)] => itemOut[k] = ItemPending
        /\ batch.mode = "seq" =>
              /\ itemOut[started[Len(started)]].st = "failed"
              /\ \A k \in DOMAIN itemOut :
                    k < started[Len(started)] =>
                        (itemOut[k].st = "ok" /\ itemOut[k].usage)
        /\ batch.mode = "par" =>
              /\ \A k \in DOMAIN itemOut :
                    k <= batch.i => (itemOut[k].st = "ok" /\ itemOut[k].usage)
              /\ \A k \in Window(batch.i, batch.concurrency, Len(batch.items)) :
                    /\ itemOut[k].st \in {"running", "ok", "failed"}
                    /\ itemOut[k].st = "ok" => itemOut[k].usage

\* a usage record written stays written while the call is the same, and an
\* item in flight when the batch failed still writes its own
C28_UsageRemains ==
    [][batch' = batch /\ batch.phase = "done" /\ bresp.status = "error" =>
          /\ bresp' = bresp /\ started' = started
          /\ \A k \in DOMAIN itemOut :
                /\ itemOut[k].usage => itemOut'[k].usage
                /\ (itemOut[k].st = "running" /\ itemOut'[k].st = "ok") => itemOut'[k].usage
      ]_vars

\* a parallel batch failed on one item of a window and another item of the
\* same window resolved after the failure, its usage record written
C28_Witness ==
    /\ batch.phase = "done" /\ bresp.status = "error" /\ batch.mode = "par"
    /\ \E f, k \in DOMAIN itemOut :
          /\ itemOut[f].st = "failed" /\ itemOut[k].st = "ok"
          /\ itemOut[k].usage /\ itemOut[k].nth > itemOut[f].nth

\* a sequential batch failed on its last item after the earlier ones had
\* written their usage records
C28_WitnessSequential ==
    /\ batch.phase = "done" /\ bresp.status = "error" /\ batch.mode = "seq"
    /\ Len(batch.items) = 3 /\ itemOut[3].st = "failed"
    /\ itemOut[1].usage /\ itemOut[2].usage

(***************************************************************************)
(* C30: for every request through the timeout middleware: if the response  *)
(* finishes before the timeout elapses, no 408 is sent and the abort       *)
(* controller is never aborted; if the timeout elapses first, a 408 is     *)
(* sent exactly once (only when headers were not yet sent) and the abort   *)
(* controller is aborted, under any interleaving of the two timers and the *)
(* response's finish and close events.                                     *)
(***************************************************************************)
C30_TimeoutOrFinish ==
    /\ tm.finishedBefore => (tm.sent408 = 0 /\ ~tm.aborted)
    /\ tm.sent408 <= 1
    /\ (tm.elapsed /\ tm.timerB # "pending") => tm.aborted

\* what holds: a response finished in time is neither answered 408 nor
\* aborted, and a 408 is sent at most once and only by the elapsed timeout
C30_FinishedInTime ==
    /\ tm.finishedBefore => (tm.sent408 = 0 /\ ~tm.aborted)
    /\ tm.sent408 <= 1
    /\ tm.sent408 = 1 => tm.elapsed

\* the timeout elapsed, 408 went out, and the abort timer was cleared by the
\* 'finish' of that very answer
C30_AbortLost ==
    /\ tm.elapsed /\ tm.sent408 = 1 /\ tm.finishEmitted
    /\ tm.timerB = "cleared" /\ ~tm.aborted

(***************************************************************************)
(* C9: with the cache enabled, setCachedTranslation(text, src, tgt,        *)
(* provider, v) with a positive ttl followed immediately by                *)
(* getCachedTranslation of the same tuple returns v, for every value v,    *)
(* with the remote store available (and answering) or unavailable.         *)
(***************************************************************************)
SetThenGet ==
    /\ cacheOut.op = "set" /\ cacheOut.ttl > 0 /\ ~cacheOut.raised
    /\ cacheOut'.op = "get" /\ cacheOut'.key = cacheOut.key /\ ~cacheOut'.raised

C9_RoundTrip == [][SetThenGet => cacheOut'.value = cacheOut.value]_vars

\* the same round trip for the values that are not the empty string
C9_RoundTripNonEmpty ==
    [][SetThenGet /\ cacheOut.value # "" => cacheOut'.value = cacheOut.value]_vars

(***************************************************************************)
(* C10: an entry written with ttl = 0, or whose expiry time has passed, is *)
(* never returned by getCachedTranslation: whatever a get returns is the   *)
(* value of an entry of that key, in one of the tiers, whose expiry is     *)
(* still ahead of the time of the get.                                     *)
(***************************************************************************)
LiveEntry(k, v, t) ==
    \/ \E i \in 1..Len(memoryCache) :
          /\ memoryCache[i].key = k
          /\ memoryCache[i].value = v
          /\ memoryCache[i].expiry > t
    \/ /\ redisStore[KeyPrefix \o k] # NoEntry
       /\ redisStore[KeyPrefix \o k].value = v
       /\ redisStore[KeyPrefix \o k].expireAt > t

C10_ExpiredNeverReturned ==
    cacheOut.op = "get" /\ cacheOut.value # NoValue
        => LiveEntry(cacheOut.key, cacheOut.value, now)

\* a get, at the very time of the write, of a key whose only entry was
\* written with ttl = 0: it answers null
C10_Witness ==
    /\ cacheOut.op = "get" /\ cacheOut.value = NoValue
    /\ \E i \in 1..Len(memoryCache) :
          /\ memoryCache[i].key = cacheOut.key
          /\ memoryCache[i].expiry = now
          /\ memoryCache[i].value # ""
    /\ redisStore[KeyPrefix \o cacheOut.key] = NoEntry

(***************************************************************************)
(* C5 as stated: for an enabled breaker in the closed state, once the      *)
(* rolling window holds at least volumeThreshold calls and the failures    *)
(* are at least errorThresholdPercentage of them, the breaker is open.     *)
(***************************************************************************)
ThresholdMet(b) ==
    /\ Stats(b).fires >= VolumeThreshold
    /\ Stats(b).failures * 100 >= ErrorThresholdPercentage * Stats(b).fires

AboveThreshold(b) ==
    /\ Stats(b).fires >= VolumeThreshold
    /\ Stats(b).failures * 100 > ErrorThresholdPercentage * Stats(b).fires

C6_HalfOpenProbe ==
    [][ /\ \A n \in DOMAIN circuitBreakers :
             ( /\ circuitBreakers[n].state = "open"
               /\ n \in DOMAIN circuitBreakers'
               /\ circuitBreakers'[n].state # "open"
               /\ cbOut'.op \notin {"reset", "create"} )
                => /\ circuitBreakers'[n].state = "halfOpen"
                   /\ circuitBreakers'[n].pendingClose
        /\ \A n \in DOMAIN circuitBreakers :
             ( /\ circuitBreakers[n].state = "halfOpen"
               /\ circuitBreakers[n].pendingClose
               /\ cbOut'.op = "fire" /\ cbOut'.name = n )
                => /\ cbOut'.invoked
                   /\ circuitBreakers'[n].inflight = circuitBreakers[n].inflight + 1
        /\ ( cbOut'.op = "settle" /\ cbOut'.from = "halfOpen" )
                => circuitBreakers'[cbOut'.name].state =
                      IF cbOut'.outcome = "success" THEN "closed" ELSE "open"
      ]_vars

\* the probe of a half-open breaker timed out and the breaker is open again
C6_Witness ==
    /\ cbOut.op = "settle" /\ cbOut.from = "halfOpen" /\ cbOut.outcome = "timeout"
    /\ circuitBreakers[cbOut.name].state = "open"

(***************************************************************************)
(* C7: resetCircuitBreaker(name) on a registered name returns true and     *)
(* leaves that breaker closed, whatever state it was in; on an unknown     *)
(* name it returns false and changes no registered breaker.                *)
(***************************************************************************)
C7_Reset ==
    [][ cbOut'.op = "reset" =>
          IF cbOut'.name \in DOMAIN circuitBreakers
          THEN /\ cbOut'.outcome = "true"
               /\ circuitBreakers'[cbOut'.name].state = "closed"
          ELSE /\ cbOut'.outcome = "false"
               /\ circuitBreakers' = circuitBreakers
      ]_vars

\* an open breaker was reset and is closed
C7_Witness ==
    /\ cbOut.op = "reset" /\ cbOut.from = "open" /\ cbOut.outcome = "true"
    /\ circuitBreakers[cbOut.name].state = "closed"

(***************************************************************************)
(* C8: the error delivered to the caller when the provider was invoked and *)
(* failed is not the "provider unavailable" error synthesized when the     *)
(* breaker is open.                                                        *)
(***************************************************************************)
C8_Distinguishable ==
    cbOut.op = "settle" /\ cbOut.outcome \in {"error", "timeout"}
        => cbOut.error # Unavailable(cbOut.name)

====
